---------------------------- MODULE Spec2Model ----------------------------
(***************************************************************************)
(* A model of the go-treestore-cmdline command server runtime:             *)
(*   - the per-client capture/release/unblock FSM   (clientState.go)       *)
(*   - the multi-store set and its dirty-driven save (treeStoreSet)        *)
(*   - the dispatcher's request numbers and op-log   (cmd-handlers.go)     *)
(*   - the connection runtime and the engine lifecycle                     *)
(*                                         (clientCxn.go, cmdline.go)      *)
(*   - the pure functions of the wire format and of store discovery        *)
(* Each part has its own next-state relation and specification; the parts  *)
(* share one variable list, and a part leaves the others' variables alone. *)
(***************************************************************************)
EXTENDS Integers, Sequences, FiniteSets, TLC

(***************************************************************************)
(* Bounds of the model.                                                    *)
(***************************************************************************)
\* goroutines that call unblock / isBlocked on one client
NumCallers == 2
\* unblock / isBlocked calls started in one behaviour
MaxCalls == 3
\* largest value the dirty counter reaches between two saves
MaxDirty == 2
\* goroutines that call dispatchHandler (connection workers, the embedded Dispatch)
NumDispatchers == 2
\* dispatchHandler calls started in one behaviour
MaxDispatches == 3
\* largest value of the wall clock, in ns
MaxClock == 2
\* client connections made to the server in one behaviour
NumConns == 1
\* request frames a client sends on one connection
MaxReqs == 2
\* longest file name found in the directory of the base path
MaxFileLen == 6
\* longest byte array given to the value codec
MaxBytes == 3

(***************************************************************************)
(* Program constants.                                                      *)
(***************************************************************************)
CS_UNCAPTURED == 0
CS_DRAINING == 1
CS_CAPTURED == 2
CS_CHECKING == 3
\* capacity of clientState.unblockCh
UnblockChCap == 1
\* capacity of clientCxn.csceCh
CsceChCap == 3

VARIABLES
    \* ---- capture FSM of one client state (clientState.go) ----
    blocked,          \* cs.blocked, the FSM word
    unblockPending,   \* cs.unblockPending
    unblockCh,        \* cs.unblockCh, a buffered channel (sequence of unblockReason)
    opc,              \* position of the blocking command that captures the client
    tpc,              \* position of each goroutine calling unblock / isBlocked
    tlocked,          \* the local `locked` of each such goroutine
    treason,          \* the unblockReason argument of each unblock call
    tresult,          \* the value the last isBlocked call of each goroutine returned
    calls,            \* unblock / isBlocked calls started so far
    sent,             \* history: items sent on unblockCh since capture() last returned
    declined,         \* history: unblock calls of this capture that lost the unblockPending CAS
    \* ---- store set (treeStoreSet) ----
    basePath,         \* tss.basePath, "" = in memory only
    dbs,              \* the keys of tss.dbs
    dirty,            \* tss.dirty
    store,            \* content of each store, as the number of mutations applied to it
    disk,             \* content of each store file, NoFile when it was never written
    svpc,             \* position of the running save() call
    svTodo,           \* keys of the ranged map that the range must still produce
    svOpt,            \* keys created in the ranged map during the range (may be produced or skipped)
    svSeen,           \* keys the range has produced
    svAttached,       \* the ranged map is still tss.dbs (no discardAll since the range began)
    svErr,            \* what the last save() call returned
    svWrites,         \* history: store names passed to ts.Save by the current / last save() call
    svPrev,           \* history: the same for the save() call before it
    svClean,          \* history: no dirty.Add happened between the previous save() call and this one
    incSince,         \* history: a handler did dirty.Add since save() last swapped the counter
    \* ---- dispatcher (cmdDispatcher) ----
    opLog,            \* cd.opLog: "nil" or "sink"
    requestNumber,    \* cd.requestNumber
    now,              \* the wall clock, time.Now().UnixNano()
    dpc,              \* position of each goroutine inside dispatchHandler
    dnum,             \* the local reqNumber of each such goroutine
    dispatches,       \* dispatchHandler calls started so far
    allocLog,         \* history: request numbers in the order cd.reqMu was acquired
    sinkLog,          \* the records the op-log sink received, in the order it received them
    dctx,             \* each such goroutine's request, response and what its dispatch returned
    \* ---- engine (mainEngine) ----
    mainpc,           \* position of the program that starts, stops and awaits the server
    started,          \* eng.started
    terminating,      \* eng.terminating
    server,           \* eng.server: "nil", "listening" or "closed"
    cxns,             \* eng.cxns, the accepted connections
    termpc,           \* position of the goroutine running eng.onTerminate
    accpc,            \* position of the accept goroutine of eng.startServer
    accConn,          \* the connection Accept returned to it, as a set of at most one
    saverpc,          \* position of the saver goroutine of eng.periodicSave
    closeTodo,        \* clients the range of processAllClients must still visit
    \* ---- connections (clientCxn) and the client registry ----
    clients,          \* the keys of the global registry `clients`
    sock,             \* cc.cxn: "none", "pending" (not yet accepted), "open" or "closed"
    peerClosed,       \* the client closed its end of the connection
    csceCh,           \* cc.csceCh, a buffered channel of clientStateEvent
    socketState,      \* cc.socketState
    rpc,              \* position of the goroutine running cc.run
    waiting,          \* cc.waiting
    closing,          \* cc.closing
    sentN,            \* complete request frames the client has sent
    netPart,          \* the first bytes of the client's next frame are in the socket
    readN,            \* complete frames that cxn.Read has moved to cc.inbound
    parsedN,          \* frames that parseCommand has cut from cc.inbound
    wpc,              \* position of the worker goroutine of each dispatched request
    written,          \* the replies whose body was written to the socket, in order
    \* ---- one engine and the goroutines that call its API (cmdline.go) ----
    eng,              \* the mainEngine fields started, terminating, server, tss,
                      \* exitSaver, canExit and directCs
    registry,         \* the global map `clients`: id -> client state
    clientId,         \* the global counter clientId
    upc,              \* position of each goroutine that calls the API
    ures,             \* what the last call of each such goroutine returned
    ucalls,           \* API calls made so far
    otpc,             \* position of the eng.onTerminate goroutine each caller launched
    savers,           \* saver goroutines of periodicSave that are running
    \* ---- one call of a pure function ----
    fnIn,             \* the argument of the call
    fnOut,            \* what the call returned, once it has
    fnDone            \* the call has returned

fsmVars == <<blocked, unblockPending, unblockCh, opc, tpc, tlocked, treason,
             tresult, calls, sent, declined>>

setVars == <<basePath, dbs, dirty, store, disk, svpc, svTodo, svOpt, svSeen,
             svAttached, svErr, svWrites, svPrev, svClean, incSince>>

dispVars == <<opLog, requestNumber, now, dpc, dnum, dispatches, allocLog, sinkLog, dctx>>

srvVars == <<mainpc, started, terminating, server, cxns, termpc, accpc, accConn,
             saverpc, closeTodo, clients, sock, peerClosed, csceCh, socketState, rpc, waiting,
             closing, sentN, netPart, readN, parsedN, wpc, written>>

lifeVars == <<eng, registry, clientId, upc, ures, ucalls, otpc, savers>>

fnVars == <<fnIn, fnOut, fnDone>>

vars == <<blocked, unblockPending, unblockCh, opc, tpc, tlocked, treason,
          tresult, calls, sent, declined,
          basePath, dbs, dirty, store, disk, svpc, svTodo, svOpt, svSeen,
          svAttached, svErr, svWrites, svPrev, svClean, incSince,
          opLog, requestNumber, now, dpc, dnum, dispatches, allocLog, sinkLog, dctx,
          mainpc, started, terminating, server, cxns, termpc, accpc, accConn,
          saverpc, closeTodo, clients, sock, peerClosed, csceCh, socketState, rpc, waiting,
          closing, sentN, netPart, readN, parsedN, wpc, written,
          eng, registry, clientId, upc, ures, ucalls, otpc, savers,
          fnIn, fnOut, fnDone>>

\* what each part leaves alone
notFSM == <<setVars, dispVars, srvVars, lifeVars, fnVars>>

notSet == <<fsmVars, dispVars, srvVars, lifeVars, fnVars>>

notDisp == <<fsmVars, setVars, srvVars, lifeVars, fnVars>>

\* the server runs handlers and saves: it shares the store set's variables
notSrv == <<fsmVars, dispVars, lifeVars, fnVars>>

notFn == <<fsmVars, setVars, dispVars, srvVars, lifeVars>>

notLife == <<fsmVars, setVars, dispVars, srvVars, fnVars>>

Conns == 1..NumConns

Reqs == 1..MaxReqs

Dispatchers == 1..NumDispatchers

Callers == 1..NumCallers

\* store names: "main" is created by the constructor, the others on demand
DbNames == {"main", "alpha", "beta"}

\* disk content of a store file that was never written
NoFile == -1

\* unblockReason values: a timeout ("" / false) and an administrative error
Reasons == { [reason |-> "", isError |-> FALSE],
             [reason |-> "unblocked", isError |-> TRUE] }

NoReason == [reason |-> "", isError |-> FALSE]

(***************************************************************************)
(* Capture FSM                                                             *)
(***************************************************************************)
InitFSM ==
    /\ blocked = CS_UNCAPTURED
    /\ unblockPending = 0
    /\ unblockCh = <<>>
    /\ opc = "idle"
    /\ tpc = [t \in Callers |-> "idle"]
    /\ tlocked = [t \in Callers |-> CS_UNCAPTURED]
    /\ treason = [t \in Callers |-> NoReason]
    /\ tresult = [t \in Callers |-> FALSE]
    /\ calls = 0
    /\ sent = 0
    /\ declined = 0

\* setLock(from, to): the CAS succeeds only on `from`; a failed CAS sleeps and retries
setLock(from, to) ==
    /\ blocked = from
    /\ blocked' = to

\* capture(): setLock(CS_UNCAPTURED, CS_CAPTURED), returns cs.unblockCh
capture ==
    /\ opc = "idle"
    /\ setLock(CS_UNCAPTURED, CS_CAPTURED)
    /\ opc' = "captured"
    /\ sent' = 0
    /\ declined' = 0
    /\ UNCHANGED notFSM
    /\ UNCHANGED <<unblockPending, unblockCh, tpc, tlocked, treason, tresult, calls>>

\* the blocking command's select receives the unblock notice from the channel
\* capture() returned
selectUnblock ==
    /\ opc = "captured"
    /\ Len(unblockCh) > 0
    /\ unblockCh' = Tail(unblockCh)
    /\ opc' = "release"
    /\ UNCHANGED notFSM
    /\ UNCHANGED <<blocked, unblockPending, tpc, tlocked, treason, tresult, calls,
                   sent, declined>>

\* the blocking command's select completes on its own ready or timer channel
selectOther ==
    /\ opc = "captured"
    /\ opc' = "release"
    /\ UNCHANGED notFSM
    /\ UNCHANGED <<blocked, unblockPending, unblockCh, tpc, tlocked, treason,
                   tresult, calls, sent, declined>>

\* releaseCapture() that stores CS_DRAINING without waiting for CS_CAPTURED
releaseLockStores ==
    /\ opc = "release"
    /\ blocked' = CS_DRAINING
    /\ opc' = "drain"
    /\ UNCHANGED notFSM
    /\ UNCHANGED <<unblockPending, unblockCh, tpc, tlocked, treason, tresult,
                   calls, sent, declined>>

\* releaseCapture(): setLock(CS_CAPTURED, CS_DRAINING)
releaseLock ==
    /\ opc = "release"
    /\ setLock(CS_CAPTURED, CS_DRAINING)
    /\ opc' = "drain"
    /\ UNCHANGED notFSM
    /\ UNCHANGED <<unblockPending, unblockCh, tpc, tlocked, treason, tresult,
                   calls, sent, declined>>

\* releaseCapture() without the drain loop
releaseDrainSkipped ==
    /\ opc = "drain"
    /\ unblockCh' = unblockCh
    /\ opc' = "clear"
    /\ UNCHANGED notFSM
    /\ UNCHANGED <<blocked, unblockPending, tpc, tlocked, treason, tresult, calls,
                   sent, declined>>

\* releaseCapture(): one turn of the non-blocking drain loop
releaseDrain ==
    /\ opc = "drain"
    /\ IF Len(unblockCh) > 0
          THEN /\ unblockCh' = Tail(unblockCh)
               /\ opc' = "drain"
          ELSE /\ unblockCh' = unblockCh
               /\ opc' = "clear"
    /\ UNCHANGED notFSM
    /\ UNCHANGED <<blocked, unblockPending, tpc, tlocked, treason, tresult, calls,
                   sent, declined>>

\* releaseCapture(): atomic.StoreInt32(&cs.unblockPending, 0)
releaseClear ==
    /\ opc = "clear"
    /\ unblockPending' = 0
    /\ opc' = "unlock"
    /\ UNCHANGED notFSM
    /\ UNCHANGED <<blocked, unblockCh, tpc, tlocked, treason, tresult, calls,
                   sent, declined>>

\* releaseCapture(): setLock(CS_DRAINING, CS_UNCAPTURED)
releaseUnlock ==
    /\ opc = "unlock"
    /\ setLock(CS_DRAINING, CS_UNCAPTURED)
    /\ opc' = "idle"
    /\ UNCHANGED notFSM
    /\ UNCHANGED <<unblockPending, unblockCh, tpc, tlocked, treason, tresult,
                   calls, sent, declined>>

\* a goroutine calls unblock(reason, isError)
unblockCall(t) ==
    /\ tpc[t] = "idle"
    /\ calls < MaxCalls
    /\ calls' = calls + 1
    /\ \E r \in Reasons : treason' = [treason EXCEPT ![t] = r]
    /\ tpc' = [tpc EXCEPT ![t] = "u_swap"]
    /\ UNCHANGED notFSM
    /\ UNCHANGED <<blocked, unblockPending, unblockCh, opc, tlocked, tresult,
                   sent, declined>>

\* unblock: locked := atomic.SwapInt32(&cs.blocked, CS_CHECKING)
unblockSwap(t) ==
    /\ tpc[t] = "u_swap"
    /\ tlocked' = [tlocked EXCEPT ![t] = blocked]
    /\ blocked' = CS_CHECKING
    /\ tpc' = [tpc EXCEPT ![t] = IF blocked = CS_CAPTURED THEN "u_cas" ELSE "u_restore"]
    /\ UNCHANGED notFSM
    /\ UNCHANGED <<unblockPending, unblockCh, opc, treason, tresult, calls, sent,
                   declined>>

\* the same step with the single-shot guard dropped: every unblock that sees
\* CS_CAPTURED posts
unblockCasNoGuard(t) ==
    /\ tpc[t] = "u_cas"
    /\ unblockPending' = 1
    /\ tpc' = [tpc EXCEPT ![t] = "u_send"]
    /\ declined' = declined
    /\ UNCHANGED notFSM
    /\ UNCHANGED <<blocked, unblockCh, opc, tlocked, treason, tresult, calls, sent>>

\* unblock: atomic.CompareAndSwapInt32(&cs.unblockPending, 0, 1)
unblockCas(t) ==
    /\ tpc[t] = "u_cas"
    /\ IF unblockPending = 0
          THEN /\ unblockPending' = 1
               /\ tpc' = [tpc EXCEPT ![t] = "u_send"]
               /\ declined' = declined
          ELSE /\ unblockPending' = unblockPending
               /\ tpc' = [tpc EXCEPT ![t] = "u_restore"]
               /\ declined' = declined + 1
    /\ UNCHANGED notFSM
    /\ UNCHANGED <<blocked, unblockCh, opc, tlocked, treason, tresult, calls, sent>>

\* unblock: cs.unblockCh <- unblockReason{...}; blocks while the channel is full
unblockSend(t) ==
    /\ tpc[t] = "u_send"
    /\ Len(unblockCh) < UnblockChCap
    /\ unblockCh' = Append(unblockCh, treason[t])
    /\ sent' = sent + 1
    /\ tpc' = [tpc EXCEPT ![t] = "u_restore"]
    /\ UNCHANGED notFSM
    /\ UNCHANGED <<blocked, unblockPending, opc, tlocked, treason, tresult, calls,
                   declined>>

\* unblock that returns after one pass whatever it read
unblockRestoreReturns(t) ==
    /\ tpc[t] = "u_restore"
    /\ blocked' = tlocked[t]
    /\ tpc' = [tpc EXCEPT ![t] = "idle"]
    /\ UNCHANGED notFSM
    /\ UNCHANGED <<unblockPending, unblockCh, opc, tlocked, treason, tresult,
                   calls, sent, declined>>

\* unblock: atomic.SwapInt32(&cs.blocked, locked); return on CS_UNCAPTURED or
\* CS_CAPTURED, else back off and try again
unblockRestore(t) ==
    /\ tpc[t] = "u_restore"
    /\ blocked' = tlocked[t]
    /\ tpc' = [tpc EXCEPT ![t] =
                 IF tlocked[t] \in {CS_UNCAPTURED, CS_CAPTURED} THEN "idle" ELSE "u_swap"]
    /\ UNCHANGED notFSM
    /\ UNCHANGED <<unblockPending, unblockCh, opc, tlocked, treason, tresult,
                   calls, sent, declined>>

\* a goroutine calls isBlocked()
isBlockedCall(t) ==
    /\ tpc[t] = "idle"
    /\ calls < MaxCalls
    /\ calls' = calls + 1
    /\ tpc' = [tpc EXCEPT ![t] = "b_swap"]
    /\ UNCHANGED notFSM
    /\ UNCHANGED <<blocked, unblockPending, unblockCh, opc, tlocked, treason,
                   tresult, sent, declined>>

\* isBlocked: locked := atomic.SwapInt32(&cs.blocked, CS_CHECKING)
isBlockedSwap(t) ==
    /\ tpc[t] = "b_swap"
    /\ tlocked' = [tlocked EXCEPT ![t] = blocked]
    /\ blocked' = CS_CHECKING
    /\ tpc' = [tpc EXCEPT ![t] = "b_restore"]
    /\ UNCHANGED notFSM
    /\ UNCHANGED <<unblockPending, unblockCh, opc, treason, tresult, calls, sent,
                   declined>>

\* isBlocked: atomic.SwapInt32(&cs.blocked, locked); return blocked or retry
isBlockedRestore(t) ==
    /\ tpc[t] = "b_restore"
    /\ blocked' = tlocked[t]
    /\ IF tlocked[t] \in {CS_UNCAPTURED, CS_CAPTURED}
          THEN /\ tresult' = [tresult EXCEPT ![t] = (tlocked[t] = CS_CAPTURED)]
               /\ tpc' = [tpc EXCEPT ![t] = "idle"]
          ELSE /\ tresult' = tresult
               /\ tpc' = [tpc EXCEPT ![t] = "b_swap"]
    /\ UNCHANGED notFSM
    /\ UNCHANGED <<unblockPending, unblockCh, opc, tlocked, treason, calls, sent,
                   declined>>

releaseCapture == releaseLock \/ releaseDrain \/ releaseClear \/ releaseUnlock

unblock(t) == unblockSwap(t) \/ unblockCas(t) \/ unblockSend(t) \/ unblockRestore(t)

isBlocked(t) == isBlockedSwap(t) \/ isBlockedRestore(t)

NextFSM ==
    \/ capture
    \/ selectUnblock
    \/ selectOther
    \/ releaseLock
    \/ releaseDrain
    \/ releaseClear
    \/ releaseUnlock
    \/ \E t \in Callers : unblockCall(t)
    \/ \E t \in Callers : unblockSwap(t)
    \/ \E t \in Callers : unblockCas(t)
    \/ \E t \in Callers : unblockSend(t)
    \/ \E t \in Callers : unblockRestore(t)
    \/ \E t \in Callers : isBlockedCall(t)
    \/ \E t \in Callers : isBlockedSwap(t)
    \/ \E t \in Callers : isBlockedRestore(t)

(***************************************************************************)
(* Store set                                                               *)
(***************************************************************************)
\* newTreeStoreSet(l, basePath, appVersion): "main" is created, no file is found
InitSet ==
    /\ basePath \in {"", "base"}
    /\ dbs = {"main"}
    /\ dirty = 0
    /\ store = [n \in DbNames |-> 0]
    /\ disk = [n \in DbNames |-> NoFile]
    /\ svpc = "idle"
    /\ svTodo = {}
    /\ svOpt = {}
    /\ svSeen = {}
    /\ svAttached = FALSE
    /\ svErr = "nil"
    /\ svWrites = <<>>
    /\ svPrev = <<>>
    /\ svClean = FALSE
    /\ incSince = FALSE

\* the store set of a part that does not use it
IdleSet == InitSet /\ basePath = ""

\* treeStoreFileName(index): "" without a base path, else <basePath>.<index>.db
treeStoreFileName(index) ==
    IF basePath = "" THEN "" ELSE <<basePath, index, "db">>

\* a range over a map that is modified meanwhile: a removed key that was not
\* reached is not produced, a created key may be produced or skipped
rangeDelete(index) ==
    /\ svTodo' = IF svAttached THEN svTodo \ {index} ELSE svTodo
    /\ svOpt' = IF svAttached THEN svOpt \ {index} ELSE svOpt

rangeCreate(index) ==
    /\ svTodo' = svTodo
    /\ svOpt' = IF svAttached /\ svpc = "range" /\ index \notin svSeen
                   THEN svOpt \cup {index} ELSE svOpt

\* getDb(l, index, create): createDbUnlocked when the store is absent and create is set
getDb(index, create) ==
    /\ IF index \notin dbs /\ create
          THEN /\ dbs' = dbs \cup {index}
               /\ store' = [store EXCEPT ![index] = 0]
               /\ rangeCreate(index)
          ELSE /\ UNCHANGED <<dbs, store, svTodo, svOpt>>
    /\ UNCHANGED <<basePath, dirty, disk, svpc, svSeen, svAttached, svErr,
                   svWrites, svPrev, svClean, incSince>>
    /\ UNCHANGED notSet

\* discardDb(index): delete(tss.dbs, index)
discardDb(index) ==
    /\ dbs' = dbs \ {index}
    /\ rangeDelete(index)
    /\ UNCHANGED <<basePath, dirty, store, disk, svpc, svSeen, svAttached, svErr,
                   svWrites, svPrev, svClean, incSince>>
    /\ UNCHANGED notSet

\* discardAll(): tss.dbs = a new empty map; a running range keeps the old map
discardAll ==
    /\ dbs' = {}
    /\ svAttached' = FALSE
    /\ UNCHANGED <<basePath, dirty, store, disk, svpc, svTodo, svOpt, svSeen,
                   svErr, svWrites, svPrev, svClean, incSince>>
    /\ UNCHANGED notSet

\* a write handler's ctx.cs.tss.dirty.Add(1)
dirtyAdd ==
    /\ dirty' = dirty + 1
    /\ incSince' = TRUE
    /\ UNCHANGED <<basePath, dbs, store, disk, svpc, svTodo, svOpt, svSeen,
                   svAttached, svErr, svWrites, svPrev, svClean>>

\* a write handler of the store set's user ran to its dirty.Add(1)
handlerWrite ==
    /\ dirty < MaxDirty
    /\ dirtyAdd
    /\ UNCHANGED notSet

\* the test of save() turned around: it also saves a clean store set
saveSwapAlways ==
    /\ svpc = "idle"
    /\ dirty' = 0
    /\ svpc' = "range"
    /\ svTodo' = dbs
    /\ svAttached' = TRUE
    /\ svErr' = "nil"
    /\ svOpt' = {}
    /\ svSeen' = {}
    /\ svPrev' = svWrites
    /\ svWrites' = <<>>
    /\ svClean' = ~incSince
    /\ incSince' = FALSE
    /\ UNCHANGED <<basePath, dbs, store, disk>>

\* save(): if tss.dirty.Swap(0) > 0 { range tss.dbs ... }; return nil
saveSwap ==
    /\ svpc = "idle"
    /\ dirty' = 0
    /\ IF dirty > 0
          THEN /\ svpc' = "range"
               /\ svTodo' = dbs
               /\ svAttached' = TRUE
          ELSE /\ svpc' = "idle"
               /\ svTodo' = {}
               /\ svAttached' = FALSE
    /\ svErr' = "nil"
    /\ svOpt' = {}
    /\ svSeen' = {}
    /\ svPrev' = svWrites
    /\ svWrites' = <<>>
    /\ svClean' = ~incSince
    /\ incSince' = FALSE
    /\ UNCHANGED <<basePath, dbs, store, disk>>

\* save(): ts.Save(l, tss.treeStoreFileName(index)) succeeds for the next store
saveStore ==
    /\ svpc = "range"
    /\ \E index \in svTodo \cup svOpt :
          /\ treeStoreFileName(index) # ""
          /\ disk' = [disk EXCEPT ![index] = store[index]]
          /\ svWrites' = Append(svWrites, index)
          /\ svSeen' = svSeen \cup {index}
          /\ svTodo' = svTodo \ {index}
          /\ svOpt' = svOpt \ {index}
    /\ UNCHANGED <<basePath, dbs, dirty, store, svpc, svAttached, svErr, svPrev,
                   svClean, incSince>>

\* save() that puts the dirty counter back when ts.Save fails (a wrong version)
saveStoreFailsRestores ==
    /\ svpc = "range"
    /\ \E index \in svTodo \cup svOpt :
          /\ svWrites' = Append(svWrites, index)
          /\ svSeen' = svSeen \cup {index}
    /\ svpc' = "idle"
    /\ svErr' = "error"
    /\ svTodo' = {}
    /\ svOpt' = {}
    /\ svAttached' = FALSE
    /\ dirty' = dirty + 1
    /\ UNCHANGED <<basePath, dbs, store, disk, svPrev, svClean, incSince>>

\* save(): ts.Save fails (always so for the empty file name); save returns the error
saveStoreFails ==
    /\ svpc = "range"
    /\ \E index \in svTodo \cup svOpt :
          /\ svWrites' = Append(svWrites, index)
          /\ svSeen' = svSeen \cup {index}
    /\ svpc' = "idle"
    /\ svErr' = "error"
    /\ svTodo' = {}
    /\ svOpt' = {}
    /\ svAttached' = FALSE
    /\ UNCHANGED <<basePath, dbs, dirty, store, disk, svPrev, svClean, incSince>>

\* save(): the range is over; return nil
saveReturn ==
    /\ svpc = "range"
    /\ svTodo = {}
    /\ svpc' = "idle"
    /\ svOpt' = {}
    /\ svAttached' = FALSE
    /\ UNCHANGED <<basePath, dbs, dirty, store, disk, svTodo, svSeen, svErr,
                   svWrites, svPrev, svClean, incSince>>

save == saveSwap \/ saveStore \/ saveStoreFails \/ saveReturn

\* the steps of a save() call made on the store set alone
setSaveSwap == saveSwap /\ UNCHANGED notSet

setSaveStore == saveStore /\ UNCHANGED notSet

setSaveStoreFails == saveStoreFails /\ UNCHANGED notSet

setSaveReturn == saveReturn /\ UNCHANGED notSet

NextSet ==
    \/ \E index \in DbNames, create \in BOOLEAN : getDb(index, create)
    \/ \E index \in DbNames : discardDb(index)
    \/ discardAll
    \/ handlerWrite
    \/ setSaveSwap
    \/ setSaveStore
    \/ setSaveStoreFails
    \/ setSaveReturn

(***************************************************************************)
(* Dispatcher: request numbers and op-log records                          *)
(***************************************************************************)
\* the command names of the requests tried: one registered with
\* registerWriteCommand, one registered with RegisterCommand, one not registered
CmdNames == {"setv", "getv", "nosuch"}

\* writeCommands, as registerWriteCommand fills it
writeCommands == {"setv"}

\* a goroutine that is in no dispatch and has made none
NoDispatch ==
    [name |-> "", modify |-> FALSE, reqErr |-> FALSE, resErr |-> FALSE,
     output |-> "", err |-> ""]

\* newCmdDispatcher(port, iface, tss, opLog): no request number was given out
InitDisp ==
    /\ opLog \in {"nil", "sink"}
    /\ requestNumber = 0
    /\ now \in 0..MaxClock
    /\ dpc = [d \in Dispatchers |-> "idle"]
    /\ dnum = [d \in Dispatchers |-> 0]
    /\ dispatches = 0
    /\ allocLog = <<>>
    /\ sinkLog = <<>>
    /\ dctx = [d \in Dispatchers |-> NoDispatch]

\* the dispatcher of a part that does not use it
IdleDisp == InitDisp /\ opLog = "nil" /\ now = 0

\* the wall clock moves, forwards or (when it is adjusted) backwards
clockMoves ==
    /\ \E t \in 0..MaxClock : t # now /\ now' = t
    /\ UNCHANGED <<opLog, requestNumber, dpc, dnum, dispatches, allocLog, sinkLog, dctx>>
    /\ UNCHANGED notDisp

\* a goroutine enters dispatchHandler(l, cs, req); req.args[0] is the command name
dispatchCall(d) ==
    /\ dpc[d] = "idle"
    /\ dispatches < MaxDispatches
    /\ dispatches' = dispatches + 1
    /\ dpc' = [dpc EXCEPT ![d] = "clock"]
    /\ \E name \in CmdNames : dctx' = [dctx EXCEPT ![d] = [NoDispatch EXCEPT !.name = name]]
    /\ UNCHANGED <<opLog, requestNumber, now, dnum, allocLog, sinkLog>>
    /\ UNCHANGED notDisp

\* reqNumber := uint64(time.Now().UnixNano())
readClock(d) ==
    /\ dpc[d] = "clock"
    /\ dnum' = [dnum EXCEPT ![d] = now]
    /\ dpc' = [dpc EXCEPT ![d] = "lock"]
    /\ UNCHANGED <<opLog, requestNumber, now, dispatches, allocLog, sinkLog, dctx>>
    /\ UNCHANGED notDisp

\* the comparison with < for <=: a clock value equal to the last number is reused
nextNumberReuses(read, last) == IF read < last THEN last + 1 ELSE read

\* the request number a dispatch takes, given the clock value it read
nextNumber(read, last) == IF read <= last THEN last + 1 ELSE read

\* the same step without the store to cd.requestNumber (a wrong version)
allocNumberForgets(d) ==
    /\ dpc[d] = "lock"
    /\ dnum' = [dnum EXCEPT ![d] = nextNumber(dnum[d], requestNumber)]
    /\ requestNumber' = requestNumber
    /\ allocLog' = Append(allocLog, nextNumber(dnum[d], requestNumber))
    /\ dpc' = [dpc EXCEPT ![d] = "logreq"]
    /\ UNCHANGED <<opLog, now, dispatches, sinkLog, dctx>>
    /\ UNCHANGED notDisp

\* under cd.reqMu: if reqNumber <= cd.requestNumber { reqNumber = cd.requestNumber + 1 };
\* cd.requestNumber = reqNumber
allocNumber(d) ==
    /\ dpc[d] = "lock"
    /\ dnum' = [dnum EXCEPT ![d] = nextNumber(dnum[d], requestNumber)]
    /\ requestNumber' = nextNumber(dnum[d], requestNumber)
    /\ allocLog' = Append(allocLog, nextNumber(dnum[d], requestNumber))
    /\ dpc' = [dpc EXCEPT ![d] = "logreq"]
    /\ UNCHANGED <<opLog, now, dispatches, sinkLog, dctx>>
    /\ UNCHANGED notDisp

\* the modify flag that is true for every registered command (a wrong version)
modifyOfRegistered(name) == name \in {"setv", "getv"}

\* _, modify = writeCommands[req.args[0]]
modifyOf(name) == name \in writeCommands

\* the same step when an error of OpLogRequest ends the dispatch (a wrong version)
logRequestReturnsErr(d) ==
    /\ dpc[d] = "logreq"
    /\ IF opLog # "nil"
          THEN \E failed \in BOOLEAN :
                  /\ sinkLog' = Append(sinkLog, [kind |-> "request", num |-> dnum[d],
                                                 modify |-> dctx[d].name \in writeCommands])
                  /\ dctx' = [dctx EXCEPT ![d].modify = dctx[d].name \in writeCommands,
                                          ![d].reqErr = failed,
                                          ![d].err = IF failed THEN "OpLogRequest" ELSE ""]
                  /\ dpc' = [dpc EXCEPT ![d] = IF failed THEN "idle" ELSE "process"]
          ELSE /\ UNCHANGED <<sinkLog, dctx>>
               /\ dpc' = [dpc EXCEPT ![d] = "process"]
    /\ UNCHANGED <<opLog, requestNumber, now, dnum, dispatches, allocLog>>
    /\ UNCHANGED notDisp

\* modify := false; if cd.opLog != nil { modify is looked up;
\* cd.opLog.OpLogRequest(reqNumber, modify, req.exact) }: what the sink returns is dropped
logRequest(d) ==
    /\ dpc[d] = "logreq"
    /\ IF opLog # "nil"
          THEN \E failed \in BOOLEAN :
                  /\ sinkLog' = Append(sinkLog, [kind |-> "request", num |-> dnum[d],
                                                 modify |-> modifyOf(dctx[d].name)])
                  /\ dctx' = [dctx EXCEPT ![d].modify = modifyOf(dctx[d].name),
                                          ![d].reqErr = failed]
          ELSE UNCHANGED <<sinkLog, dctx>>
    /\ dpc' = [dpc EXCEPT ![d] = "process"]
    /\ UNCHANGED <<opLog, requestNumber, now, dnum, dispatches, allocLog>>
    /\ UNCHANGED notDisp

\* cd.cmdLine.ProcessWithContext(ctx, req.args), which fails for a name that is not
\* registered and may fail in the parser or the handler for the others, and the
\* JSON encoding of the response: output is the reply or the reply {"error": ...}
processRequest(d) ==
    /\ dpc[d] = "process"
    /\ \E failed \in BOOLEAN :
          /\ dctx[d].name \notin {"setv", "getv"} => failed
          /\ dctx' = [dctx EXCEPT ![d].output = IF failed THEN "error" ELSE "reply"]
    /\ dpc' = [dpc EXCEPT ![d] = "logres"]
    /\ UNCHANGED <<opLog, requestNumber, now, dnum, dispatches, allocLog, sinkLog>>
    /\ UNCHANGED notDisp

\* if cd.opLog != nil { if err = cd.opLog.OpLogResult(reqNumber, modify, output);
\* err != nil { return } }; return
logResult(d) ==
    /\ dpc[d] = "logres"
    /\ IF opLog # "nil"
          THEN \E failed \in BOOLEAN :
                  /\ sinkLog' = Append(sinkLog, [kind |-> "result", num |-> dnum[d],
                                                 modify |-> dctx[d].modify])
                  /\ dctx' = [dctx EXCEPT ![d].resErr = failed,
                                          ![d].err = IF failed THEN "OpLogResult" ELSE ""]
          ELSE UNCHANGED <<sinkLog, dctx>>
    /\ dpc' = [dpc EXCEPT ![d] = "idle"]
    /\ UNCHANGED <<opLog, requestNumber, now, dnum, dispatches, allocLog>>
    /\ UNCHANGED notDisp

NextDisp ==
    \/ clockMoves
    \/ \E d \in Dispatchers : dispatchCall(d)
    \/ \E d \in Dispatchers : readClock(d)
    \/ \E d \in Dispatchers : allocNumber(d)
    \/ \E d \in Dispatchers : logRequest(d)
    \/ \E d \in Dispatchers : processRequest(d)
    \/ \E d \in Dispatchers : logResult(d)

(***************************************************************************)
(* Engine lifecycle and connection runtime                                 *)
(***************************************************************************)
engVars == <<mainpc, started, terminating, server, cxns, termpc, accpc, accConn,
             saverpc, closeTodo>>

frameVars == <<sentN, netPart, readN, parsedN>>

\* NewTreeStoreCmdLineServer(l): nothing is started, nobody is connected
InitSrv ==
    /\ mainpc = "new"
    /\ started = FALSE
    /\ terminating = FALSE
    /\ server = "nil"
    /\ cxns = {}
    /\ termpc = "off"
    /\ accpc = "off"
    /\ accConn = {}
    /\ saverpc = "off"
    /\ closeTodo = {}
    /\ clients = {}
    /\ sock = [c \in Conns |-> "none"]
    /\ peerClosed = [c \in Conns |-> FALSE]
    /\ csceCh = [c \in Conns |-> <<>>]
    /\ socketState = [c \in Conns |-> "csNone"]
    /\ rpc = [c \in Conns |-> "off"]
    /\ waiting = [c \in Conns |-> FALSE]
    /\ closing = [c \in Conns |-> FALSE]
    /\ sentN = [c \in Conns |-> 0]
    /\ netPart = [c \in Conns |-> FALSE]
    /\ readN = [c \in Conns |-> 0]
    /\ parsedN = [c \in Conns |-> 0]
    /\ wpc = [c \in Conns |-> [k \in Reqs |-> "none"]]
    /\ written = [c \in Conns |-> <<>>]

\* clientStateEvent{newState, eventData}
Event(newState, eventData) == [newState |-> newState, eventData |-> eventData]

\* queueStateChange(newState, eventData) blocks while cc.csceCh is full
canQueue(c) == Len(csceCh[c]) < CsceChCap

\* a worker goroutine exists and has not returned
Working(c, k) == wpc[c][k] \notin {"none", "end"}

\* a worker goroutine is inside dispatchHandler (the command's handler)
InHandler(c, k) == wpc[c][k] \in {"dispatch", "dirtyadd"}

\* clientsMu is held by processAllClients for the whole of its range
clientsMuHeld == termpc = "requesting"

\* ---- the program using the server ----

\* StartServer whose periodicSave launches the saver without looking at the base
\* path (a wrong version)
StartServerAlwaysSaves ==
    /\ mainpc = "new"
    /\ ~started
    /\ saverpc' = "select"
    /\ server' = "listening"
    /\ accpc' = "accept"
    /\ started' = TRUE
    /\ mainpc' = "serving"
    /\ UNCHANGED <<terminating, cxns, termpc, accConn>>
    /\ UNCHANGED <<clients, sock, peerClosed, csceCh, socketState, rpc, waiting,
                   closing, frameVars, wpc, written>>
    /\ UNCHANGED closeTodo
    /\ UNCHANGED setVars
    /\ UNCHANGED notSrv

\* StartServer(endpoint, port, persistPath, appVersion, opLog): the store set is
\* built, the saver is launched when there is a base path, the listener opens and
\* the accept goroutine is launched
StartServer ==
    /\ mainpc = "new"
    /\ ~started
    /\ saverpc' = IF basePath # "" THEN "select" ELSE "off"
    /\ server' = "listening"
    /\ accpc' = "accept"
    /\ started' = TRUE
    /\ mainpc' = "serving"
    /\ UNCHANGED <<terminating, cxns, termpc, accConn>>
    /\ UNCHANGED <<clients, sock, peerClosed, csceCh, socketState, rpc, waiting,
                   closing, frameVars, wpc, written>>
    /\ UNCHANGED closeTodo
    /\ UNCHANGED setVars
    /\ UNCHANGED notSrv

\* StopServer(): the first call launches eng.onTerminate
StopServer ==
    /\ mainpc = "serving"
    /\ started
    /\ terminating' = TRUE
    /\ termpc' = IF terminating THEN termpc ELSE "close_listener"
    /\ mainpc' = "stopped"
    /\ UNCHANGED <<started, server, cxns, accpc, accConn, saverpc>>
    /\ UNCHANGED <<clients, sock, peerClosed, csceCh, socketState, rpc, waiting,
                   closing, frameVars, wpc, written>>
    /\ UNCHANGED closeTodo
    /\ UNCHANGED setVars
    /\ UNCHANGED notSrv

\* WaitForTermination() is called: <-eng.canExit
WaitForTermination ==
    /\ mainpc = "stopped"
    /\ mainpc' = "waiting"
    /\ UNCHANGED <<started, terminating, server, cxns, termpc, accpc, accConn,
                   saverpc>>
    /\ UNCHANGED <<clients, sock, peerClosed, csceCh, socketState, rpc, waiting,
                   closing, frameVars, wpc, written>>
    /\ UNCHANGED closeTodo
    /\ UNCHANGED setVars
    /\ UNCHANGED notSrv

\* ---- the clients ----

\* a client dials the listener; the connection waits to be accepted
clientConnect(c) ==
    /\ server = "listening"
    /\ sock[c] = "none"
    /\ sock' = [sock EXCEPT ![c] = "pending"]
    /\ UNCHANGED engVars
    /\ UNCHANGED <<clients, peerClosed, csceCh, socketState, rpc, waiting, closing,
                   frameVars, wpc, written>>
    /\ UNCHANGED setVars
    /\ UNCHANGED notSrv

\* a client writes the first bytes of its next request frame
clientSendPart(c) ==
    /\ sock[c] \in {"pending", "open"}
    /\ ~peerClosed[c]
    /\ sentN[c] < MaxReqs
    /\ ~netPart[c]
    /\ netPart' = [netPart EXCEPT ![c] = TRUE]
    /\ UNCHANGED engVars
    /\ UNCHANGED <<clients, sock, peerClosed, csceCh, socketState, rpc, waiting,
                   closing, sentN, readN, parsedN, wpc, written>>
    /\ UNCHANGED setVars
    /\ UNCHANGED notSrv

\* a client writes a request frame, or the rest of the one it began
clientSend(c) ==
    /\ sock[c] \in {"pending", "open"}
    /\ ~peerClosed[c]
    /\ sentN[c] < MaxReqs
    /\ sentN' = [sentN EXCEPT ![c] = @ + 1]
    /\ netPart' = [netPart EXCEPT ![c] = FALSE]
    /\ UNCHANGED engVars
    /\ UNCHANGED <<clients, sock, peerClosed, csceCh, socketState, rpc, waiting,
                   closing, readN, parsedN, wpc, written>>
    /\ UNCHANGED setVars
    /\ UNCHANGED notSrv

\* a client closes its end of the connection
clientClose(c) ==
    /\ sock[c] \in {"pending", "open"}
    /\ ~peerClosed[c]
    /\ peerClosed' = [peerClosed EXCEPT ![c] = TRUE]
    /\ UNCHANGED engVars
    /\ UNCHANGED <<clients, sock, csceCh, socketState, rpc, waiting, closing,
                   frameVars, wpc, written>>
    /\ UNCHANGED setVars
    /\ UNCHANGED notSrv

\* ---- the accept goroutine of startServer ----

\* connection, err := eng.server.Accept() returns a connection
acceptConn ==
    /\ accpc = "accept"
    /\ server = "listening"
    /\ \E c \in Conns :
          /\ sock[c] = "pending"
          /\ sock' = [sock EXCEPT ![c] = "open"]
          /\ accConn' = {c}
    /\ accpc' = "append"
    /\ UNCHANGED <<mainpc, started, terminating, server, cxns, termpc, saverpc>>
    /\ UNCHANGED <<clients, peerClosed, csceCh, socketState, rpc, waiting, closing,
                   frameVars, wpc, written>>
    /\ UNCHANGED closeTodo
    /\ UNCHANGED setVars
    /\ UNCHANGED notSrv

\* Accept returns net.ErrClosed: the goroutine leaves its loop
acceptClosed ==
    /\ accpc = "accept"
    /\ server = "closed"
    /\ accpc' = "exit"
    /\ UNCHANGED <<mainpc, started, terminating, server, cxns, termpc, accConn,
                   saverpc>>
    /\ UNCHANGED <<clients, sock, peerClosed, csceCh, socketState, rpc, waiting,
                   closing, frameVars, wpc, written>>
    /\ UNCHANGED closeTodo
    /\ UNCHANGED setVars
    /\ UNCHANGED notSrv

\* under eng.mu: eng.cxns = append(eng.cxns, connection)
acceptAppend ==
    /\ accpc = "append"
    /\ cxns' = cxns \cup accConn
    /\ accpc' = "new"
    /\ UNCHANGED <<mainpc, started, terminating, server, termpc, accConn, saverpc>>
    /\ UNCHANGED <<clients, sock, peerClosed, csceCh, socketState, rpc, waiting,
                   closing, frameVars, wpc, written>>
    /\ UNCHANGED closeTodo
    /\ UNCHANGED setVars
    /\ UNCHANGED notSrv

\* newClientCxn that queues csWaitForCommand itself, next to the one onInitialize
\* queues (a wrong version)
newClientCxnQueuesTwo ==
    /\ accpc = "new"
    /\ ~clientsMuHeld
    /\ clients' = clients \cup accConn
    /\ csceCh' = [c \in Conns |-> IF c \in accConn
                                     THEN csceCh[c] \o <<Event("csInitialize", 0),
                                                       Event("csWaitForCommand", 0)>>
                                     ELSE csceCh[c]]
    /\ rpc' = [c \in Conns |-> IF c \in accConn THEN "recv" ELSE rpc[c]]
    /\ accpc' = "accept"
    /\ accConn' = {}
    /\ UNCHANGED <<mainpc, started, terminating, server, cxns, termpc, saverpc>>
    /\ UNCHANGED <<sock, peerClosed, socketState, waiting, closing, frameVars,
                   wpc, written>>
    /\ UNCHANGED closeTodo
    /\ UNCHANGED setVars
    /\ UNCHANGED notSrv

\* newClientCxn(l, connection, dispatcher): newClientState registers the client,
\* csInitialize is queued and cc.run is launched
newClientCxn ==
    /\ accpc = "new"
    /\ ~clientsMuHeld
    /\ clients' = clients \cup accConn
    /\ csceCh' = [c \in Conns |-> IF c \in accConn
                                     THEN Append(csceCh[c], Event("csInitialize", 0))
                                     ELSE csceCh[c]]
    /\ rpc' = [c \in Conns |-> IF c \in accConn THEN "recv" ELSE rpc[c]]
    /\ accpc' = "accept"
    /\ accConn' = {}
    /\ UNCHANGED <<mainpc, started, terminating, server, cxns, termpc, saverpc>>
    /\ UNCHANGED <<sock, peerClosed, socketState, waiting, closing, frameVars,
                   wpc, written>>
    /\ UNCHANGED closeTodo
    /\ UNCHANGED setVars
    /\ UNCHANGED notSrv

\* ---- cc.run, the connection's state machine ----

\* run: event csInitialize; onInitialize queues csWaitForCommand
runInitialize(c) ==
    /\ rpc[c] = "recv"
    /\ csceCh[c] # <<>>
    /\ Head(csceCh[c]).newState = "csInitialize"
    /\ socketState' = [socketState EXCEPT ![c] = "csInitialize"]
    /\ csceCh' = [csceCh EXCEPT ![c] = Append(Tail(@), Event("csWaitForCommand", 0))]
    /\ UNCHANGED engVars
    /\ UNCHANGED <<clients, sock, peerClosed, rpc, waiting, closing, frameVars,
                   wpc, written>>
    /\ UNCHANGED setVars
    /\ UNCHANGED notSrv

\* onTerminate that closes the socket and leaves the client registered
onTerminateKeepsClient(c) ==
    /\ sock' = [sock EXCEPT ![c] = "closed"]
    /\ clients' = clients

\* onTerminate(): cc.cxn.Close() and cc.cs.unregister()
onTerminate(c) ==
    /\ sock' = [sock EXCEPT ![c] = "closed"]
    /\ clients' = clients \ {c}

\* the same step in a run loop that goes on receiving after csTerminate
runTerminateContinues(c) ==
    /\ rpc[c] = "recv"
    /\ csceCh[c] # <<>>
    /\ Head(csceCh[c]).newState = "csTerminate"
    /\ ~clientsMuHeld
    /\ socketState' = [socketState EXCEPT ![c] = "csTerminate"]
    /\ csceCh' = [csceCh EXCEPT ![c] = Tail(@)]
    /\ onTerminate(c)
    /\ rpc' = rpc
    /\ UNCHANGED engVars
    /\ UNCHANGED <<peerClosed, waiting, closing, frameVars, wpc, written>>
    /\ UNCHANGED setVars
    /\ UNCHANGED notSrv

\* run: event csTerminate; onTerminate closes the socket and unregisters the client
runTerminate(c) ==
    /\ rpc[c] = "recv"
    /\ csceCh[c] # <<>>
    /\ Head(csceCh[c]).newState = "csTerminate"
    /\ ~clientsMuHeld
    /\ socketState' = [socketState EXCEPT ![c] = "csTerminate"]
    /\ csceCh' = [csceCh EXCEPT ![c] = Tail(@)]
    /\ onTerminate(c)
    /\ rpc' = [rpc EXCEPT ![c] = "done"]
    /\ UNCHANGED engVars
    /\ UNCHANGED <<peerClosed, waiting, closing, frameVars, wpc, written>>
    /\ UNCHANGED setVars
    /\ UNCHANGED notSrv

\* run: event csWaitForCommand while cc.closing; csTerminate is queued
runWaitClosing(c) ==
    /\ rpc[c] = "recv"
    /\ csceCh[c] # <<>>
    /\ Head(csceCh[c]).newState = "csWaitForCommand"
    /\ closing[c]
    /\ socketState' = [socketState EXCEPT ![c] = "csWaitForCommand"]
    /\ csceCh' = [csceCh EXCEPT ![c] = Append(Tail(@), Event("csTerminate", 0))]
    /\ UNCHANGED engVars
    /\ UNCHANGED <<clients, sock, peerClosed, rpc, waiting, closing, frameVars,
                   wpc, written>>
    /\ UNCHANGED setVars
    /\ UNCHANGED notSrv

\* run: event csWaitForCommand; onWaitForCommand begins
runWaitForCommand(c) ==
    /\ rpc[c] = "recv"
    /\ csceCh[c] # <<>>
    /\ Head(csceCh[c]).newState = "csWaitForCommand"
    /\ ~closing[c]
    /\ socketState' = [socketState EXCEPT ![c] = "csWaitForCommand"]
    /\ csceCh' = [csceCh EXCEPT ![c] = Tail(@)]
    /\ rpc' = [rpc EXCEPT ![c] = "setwaiting"]
    /\ UNCHANGED engVars
    /\ UNCHANGED <<clients, sock, peerClosed, waiting, closing, frameVars, wpc,
                   written>>
    /\ UNCHANGED setVars
    /\ UNCHANGED notSrv

\* the same step with the next csWaitForCommand queued at once, instead of by
\* the worker after its write
onDispatchCommandRequeues(c) ==
    /\ rpc[c] = "recv"
    /\ csceCh[c] # <<>>
    /\ Head(csceCh[c]).newState = "csDispatchCommand"
    /\ socketState' = [socketState EXCEPT ![c] = "csDispatchCommand"]
    /\ csceCh' = [csceCh EXCEPT ![c] = Append(Tail(@), Event("csWaitForCommand", 0))]
    /\ wpc' = [wpc EXCEPT ![c][Head(csceCh[c]).eventData] = "dispatch"]
    /\ UNCHANGED engVars
    /\ UNCHANGED <<clients, sock, peerClosed, rpc, waiting, closing, frameVars,
                   written>>
    /\ UNCHANGED setVars
    /\ UNCHANGED notSrv

\* run: event csDispatchCommand; onDispatchCommand launches the worker goroutine
onDispatchCommand(c) ==
    /\ rpc[c] = "recv"
    /\ csceCh[c] # <<>>
    /\ Head(csceCh[c]).newState = "csDispatchCommand"
    /\ socketState' = [socketState EXCEPT ![c] = "csDispatchCommand"]
    /\ csceCh' = [csceCh EXCEPT ![c] = Tail(@)]
    /\ wpc' = [wpc EXCEPT ![c][Head(csceCh[c]).eventData] = "dispatch"]
    /\ UNCHANGED engVars
    /\ UNCHANGED <<clients, sock, peerClosed, rpc, waiting, closing, frameVars,
                   written>>
    /\ UNCHANGED setVars
    /\ UNCHANGED notSrv

\* onWaitForCommand: under cc.mu, cc.waiting = true
waitSetWaiting(c) ==
    /\ rpc[c] = "setwaiting"
    /\ waiting' = [waiting EXCEPT ![c] = TRUE]
    /\ rpc' = [rpc EXCEPT ![c] = "read"]
    /\ UNCHANGED engVars
    /\ UNCHANGED <<clients, sock, peerClosed, csceCh, socketState, closing,
                   frameVars, wpc, written>>
    /\ UNCHANGED setVars
    /\ UNCHANGED notSrv

\* onWaitForCommand: cc.cxn.Read(buffer) returns bytes: some complete frames, the
\* first bytes of a frame, or both
waitRead(c) ==
    /\ rpc[c] = "read"
    /\ sock[c] = "open"
    /\ \E k \in 0..(sentN[c] - readN[c]), p \in BOOLEAN :
          /\ k > 0 \/ p
          /\ p => netPart[c] /\ k = sentN[c] - readN[c]
          /\ readN' = [readN EXCEPT ![c] = @ + k]
          /\ netPart' = [netPart EXCEPT ![c] = IF p THEN FALSE ELSE @]
    /\ rpc' = [rpc EXCEPT ![c] = "parse"]
    /\ UNCHANGED engVars
    /\ UNCHANGED <<clients, sock, peerClosed, csceCh, socketState, waiting, closing,
                   sentN, parsedN, wpc, written>>
    /\ UNCHANGED setVars
    /\ UNCHANGED notSrv

\* onWaitForCommand: cc.cxn.Read(buffer) returns an error: the socket was closed,
\* or the client closed its end and everything it sent was read (io.EOF)
waitReadError(c) ==
    /\ rpc[c] = "read"
    /\ \/ sock[c] = "closed"
       \/ peerClosed[c] /\ readN[c] = sentN[c] /\ ~netPart[c]
    /\ rpc' = [rpc EXCEPT ![c] = "readerr"]
    /\ UNCHANGED engVars
    /\ UNCHANGED <<clients, sock, peerClosed, csceCh, socketState, waiting, closing,
                   frameVars, wpc, written>>
    /\ UNCHANGED setVars
    /\ UNCHANGED notSrv

\* onWaitForCommand after a failed read: cc.waiting = false; csTerminate is queued
waitFailed(c) ==
    /\ rpc[c] = "readerr"
    /\ canQueue(c)
    /\ waiting' = [waiting EXCEPT ![c] = FALSE]
    /\ csceCh' = [csceCh EXCEPT ![c] = Append(@, Event("csTerminate", 0))]
    /\ rpc' = [rpc EXCEPT ![c] = "recv"]
    /\ UNCHANGED engVars
    /\ UNCHANGED <<clients, sock, peerClosed, socketState, closing, frameVars, wpc,
                   written>>
    /\ UNCHANGED setVars
    /\ UNCHANGED notSrv

\* parseCommand(): length 0 while cc.inbound holds no complete frame, else the
\* first frame (here: its number) and its length
parseCommand(c) ==
    IF readN[c] > parsedN[c] THEN parsedN[c] + 1 ELSE 0

\* onWaitForCommand after a read: cc.waiting = false; parseCommand; a complete
\* frame is cut from cc.inbound and queued as csDispatchCommand, otherwise
\* csWaitForCommand is queued again
waitParse(c) ==
    /\ rpc[c] = "parse"
    /\ canQueue(c)
    /\ waiting' = [waiting EXCEPT ![c] = FALSE]
    /\ IF parseCommand(c) = 0
          THEN /\ csceCh' = [csceCh EXCEPT ![c] = Append(@, Event("csWaitForCommand", 0))]
               /\ parsedN' = parsedN
          ELSE /\ csceCh' = [csceCh EXCEPT ![c] =
                                Append(@, Event("csDispatchCommand", parseCommand(c)))]
               /\ parsedN' = [parsedN EXCEPT ![c] = parseCommand(c)]
    /\ rpc' = [rpc EXCEPT ![c] = "recv"]
    /\ UNCHANGED engVars
    /\ UNCHANGED <<clients, sock, peerClosed, socketState, closing, sentN, netPart,
                   readN, wpc, written>>
    /\ UNCHANGED setVars
    /\ UNCHANGED notSrv

\* ---- the worker goroutine of onDispatchCommand ----

\* cc.cs.dispatch(cmd): the argv parser or the handler fails before the store is
\* touched; the reply is {"error": ...}
workerHandlerError(c, k) ==
    /\ wpc[c][k] = "dispatch"
    /\ wpc' = [wpc EXCEPT ![c][k] = "writelen"]
    /\ UNCHANGED engVars
    /\ UNCHANGED <<clients, sock, peerClosed, csceCh, socketState, rpc, waiting,
                   closing, frameVars, written>>
    /\ UNCHANGED setVars
    /\ UNCHANGED notSrv

\* cc.cs.dispatch(cmd), fnSetKeyValue: ctx.cs.ts.SetKeyValue(...) on store "main"
workerSetKeyValue(c, k) ==
    /\ wpc[c][k] = "dispatch"
    /\ store' = [store EXCEPT !["main"] = @ + 1]
    /\ wpc' = [wpc EXCEPT ![c][k] = "dirtyadd"]
    /\ UNCHANGED engVars
    /\ UNCHANGED <<clients, sock, peerClosed, csceCh, socketState, rpc, waiting,
                   closing, frameVars, written>>
    /\ UNCHANGED <<basePath, dbs, dirty, disk, svpc, svTodo, svOpt, svSeen,
                   svAttached, svErr, svWrites, svPrev, svClean, incSince>>
    /\ UNCHANGED notSrv

\* fnSetKeyValue: ctx.cs.tss.dirty.Add(1); the handler returns, the reply is encoded
workerDirtyAdd(c, k) ==
    /\ wpc[c][k] = "dirtyadd"
    /\ dirtyAdd
    /\ wpc' = [wpc EXCEPT ![c][k] = "writelen"]
    /\ UNCHANGED engVars
    /\ UNCHANGED <<clients, sock, peerClosed, csceCh, socketState, rpc, waiting,
                   closing, frameVars, written>>
    /\ UNCHANGED notSrv

\* cc.cxn.Write fails on a closed socket and may fail once the client closed its end
writeCanSucceed(c) == sock[c] = "open"

writeCanFail(c) == sock[c] = "closed" \/ peerClosed[c]

\* worker: cc.cxn.Write(size) succeeds
workerWriteSize(c, k) ==
    /\ wpc[c][k] = "writelen"
    /\ writeCanSucceed(c)
    /\ wpc' = [wpc EXCEPT ![c][k] = "writebody"]
    /\ UNCHANGED engVars
    /\ UNCHANGED <<clients, sock, peerClosed, csceCh, socketState, rpc, waiting,
                   closing, frameVars, written>>
    /\ UNCHANGED setVars
    /\ UNCHANGED notSrv

\* worker: cc.cxn.Write(response) succeeds; csWaitForCommand is queued
workerWriteResponse(c, k) ==
    /\ wpc[c][k] = "writebody"
    /\ writeCanSucceed(c)
    /\ canQueue(c)
    /\ written' = [written EXCEPT ![c] = Append(@, k)]
    /\ csceCh' = [csceCh EXCEPT ![c] = Append(@, Event("csWaitForCommand", 0))]
    /\ wpc' = [wpc EXCEPT ![c][k] = "end"]
    /\ UNCHANGED engVars
    /\ UNCHANGED <<clients, sock, peerClosed, socketState, rpc, waiting, closing,
                   frameVars>>
    /\ UNCHANGED setVars
    /\ UNCHANGED notSrv

\* worker: a Write fails; cc.cxn.Close() and the goroutine returns
workerWriteFails(c, k) ==
    /\ wpc[c][k] \in {"writelen", "writebody"}
    /\ writeCanFail(c)
    /\ sock' = [sock EXCEPT ![c] = "closed"]
    /\ wpc' = [wpc EXCEPT ![c][k] = "end"]
    /\ UNCHANGED engVars
    /\ UNCHANGED <<clients, peerClosed, csceCh, socketState, rpc, waiting, closing,
                   frameVars, written>>
    /\ UNCHANGED setVars
    /\ UNCHANGED notSrv

\* ---- eng.onTerminate, launched by StopServer ----

\* eng.server.Close(): the listener stops; connections still waiting to be
\* accepted are reset
termCloseServer ==
    /\ termpc = "close_listener"
    /\ server' = "closed"
    /\ sock' = [c \in Conns |-> IF sock[c] = "pending" THEN "closed" ELSE sock[c]]
    /\ termpc' = "close_cxns"
    /\ UNCHANGED <<mainpc, started, terminating, cxns, accpc, accConn, saverpc,
                   closeTodo>>
    /\ UNCHANGED <<clients, peerClosed, csceCh, socketState, rpc, waiting, closing,
                   frameVars, wpc, written>>
    /\ UNCHANGED setVars
    /\ UNCHANGED notSrv

\* under eng.mu: every connection of eng.cxns is closed; eng.cxns = []net.Conn{}
termCloseCxns ==
    /\ termpc = "close_cxns"
    /\ sock' = [c \in Conns |-> IF c \in cxns THEN "closed" ELSE sock[c]]
    /\ cxns' = {}
    /\ termpc' = "request_close"
    /\ UNCHANGED <<mainpc, started, terminating, server, accpc, accConn, saverpc,
                   closeTodo>>
    /\ UNCHANGED <<clients, peerClosed, csceCh, socketState, rpc, waiting, closing,
                   frameVars, wpc, written>>
    /\ UNCHANGED setVars
    /\ UNCHANGED notSrv

\* requestAllCxnClose(): processAllClients takes clientsMu and ranges over clients
processAllClients ==
    /\ termpc = "request_close"
    /\ closeTodo' = clients
    /\ termpc' = "requesting"
    /\ UNCHANGED <<mainpc, started, terminating, server, cxns, accpc, accConn,
                   saverpc>>
    /\ UNCHANGED <<clients, sock, peerClosed, csceCh, socketState, rpc, waiting,
                   closing, frameVars, wpc, written>>
    /\ UNCHANGED setVars
    /\ UNCHANGED notSrv

\* cc.RequestClose() for the next client of the range, under cc.mu: unless already
\* closing, cc.closing = true, the socket is closed when the run loop is in its
\* read, and csTerminate is queued
RequestClose(c) ==
    /\ termpc = "requesting"
    /\ c \in closeTodo
    /\ IF closing[c]
          THEN UNCHANGED <<closing, sock, csceCh>>
          ELSE /\ canQueue(c)
               /\ closing' = [closing EXCEPT ![c] = TRUE]
               /\ sock' = [sock EXCEPT ![c] = IF waiting[c] THEN "closed" ELSE @]
               /\ csceCh' = [csceCh EXCEPT ![c] = Append(@, Event("csTerminate", 0))]
    /\ closeTodo' = closeTodo \ {c}
    /\ UNCHANGED <<mainpc, started, terminating, server, cxns, termpc, accpc,
                   accConn, saverpc>>
    /\ UNCHANGED <<clients, peerClosed, socketState, rpc, waiting, frameVars, wpc,
                   written>>
    /\ UNCHANGED setVars
    /\ UNCHANGED notSrv

\* processAllClients returns and releases clientsMu; waitForAllCxnClose begins
requestAllCxnClose ==
    /\ termpc = "requesting"
    /\ closeTodo = {}
    /\ termpc' = "poll"
    /\ UNCHANGED <<mainpc, started, terminating, server, cxns, accpc, accConn,
                   saverpc, closeTodo>>
    /\ UNCHANGED <<clients, sock, peerClosed, csceCh, socketState, rpc, waiting,
                   closing, frameVars, wpc, written>>
    /\ UNCHANGED setVars
    /\ UNCHANGED notSrv

\* isClientActive(): len(clients) > 0
isClientActive == clients # {}

\* waitForAllCxnClose: one turn of the loop; break when no client is registered,
\* else time.Sleep(50ms)
waitForAllCxnClose ==
    /\ termpc = "poll"
    /\ termpc' = IF isClientActive THEN "sleep" ELSE "stop_saver"
    /\ UNCHANGED <<mainpc, started, terminating, server, cxns, accpc, accConn,
                   saverpc, closeTodo>>
    /\ UNCHANGED <<clients, sock, peerClosed, csceCh, socketState, rpc, waiting,
                   closing, frameVars, wpc, written>>
    /\ UNCHANGED setVars
    /\ UNCHANGED notSrv

\* waitForAllCxnClose: the sleep is over
pollAgain ==
    /\ termpc = "sleep"
    /\ termpc' = "poll"
    /\ UNCHANGED <<mainpc, started, terminating, server, cxns, accpc, accConn,
                   saverpc, closeTodo>>
    /\ UNCHANGED <<clients, sock, peerClosed, csceCh, socketState, rpc, waiting,
                   closing, frameVars, wpc, written>>
    /\ UNCHANGED setVars
    /\ UNCHANGED notSrv

\* onTerminate: eng.exitSaver == nil, no saver to stop
termNoSaver ==
    /\ termpc = "stop_saver"
    /\ basePath = ""
    /\ termpc' = "can_exit"
    /\ UNCHANGED <<mainpc, started, terminating, server, cxns, accpc, accConn,
                   saverpc, closeTodo>>
    /\ UNCHANGED <<clients, sock, peerClosed, csceCh, socketState, rpc, waiting,
                   closing, frameVars, wpc, written>>
    /\ UNCHANGED setVars
    /\ UNCHANGED notSrv

\* eng.exitSaver <- struct{}{} meets the saver's select
saverExit ==
    /\ termpc = "stop_saver"
    /\ basePath # ""
    /\ saverpc = "select"
    /\ termpc' = "await_saver"
    /\ saverpc' = "stopping"
    /\ UNCHANGED <<mainpc, started, terminating, server, cxns, accpc, accConn,
                   closeTodo>>
    /\ UNCHANGED <<clients, sock, peerClosed, csceCh, socketState, rpc, waiting,
                   closing, frameVars, wpc, written>>
    /\ UNCHANGED setVars
    /\ UNCHANGED notSrv

\* eng.canExit <- struct{}{} meets WaitForTermination's receive, which returns
canExit ==
    /\ termpc = "can_exit"
    /\ mainpc = "waiting"
    /\ termpc' = "done"
    /\ mainpc' = "returned"
    /\ UNCHANGED <<started, terminating, server, cxns, accpc, accConn, saverpc,
                   closeTodo>>
    /\ UNCHANGED <<clients, sock, peerClosed, csceCh, socketState, rpc, waiting,
                   closing, frameVars, wpc, written>>
    /\ UNCHANGED setVars
    /\ UNCHANGED notSrv

\* ---- the saver goroutine of eng.periodicSave ----

\* case <-timer.C: eng.tss.save(eng.l) begins
saverTick ==
    /\ saverpc = "select"
    /\ saveSwap
    /\ saverpc' = "tick"
    /\ UNCHANGED <<mainpc, started, terminating, server, cxns, termpc, accpc,
                   accConn, closeTodo>>
    /\ UNCHANGED <<clients, sock, peerClosed, csceCh, socketState, rpc, waiting,
                   closing, frameVars, wpc, written>>
    /\ UNCHANGED notSrv

\* case <-eng.exitSaver: timer.Stop(); eng.tss.save(eng.l) begins
saverFinalSave ==
    /\ saverpc = "stopping"
    /\ saveSwap
    /\ saverpc' = "final"
    /\ UNCHANGED <<mainpc, started, terminating, server, cxns, termpc, accpc,
                   accConn, closeTodo>>
    /\ UNCHANGED <<clients, sock, peerClosed, csceCh, socketState, rpc, waiting,
                   closing, frameVars, wpc, written>>
    /\ UNCHANGED notSrv

\* the saver's save() writes the next store
saverSaveStore ==
    /\ saverpc \in {"tick", "final"}
    /\ saveStore
    /\ UNCHANGED engVars
    /\ UNCHANGED <<clients, sock, peerClosed, csceCh, socketState, rpc, waiting,
                   closing, frameVars, wpc, written>>
    /\ UNCHANGED notSrv

\* the saver's save() ends its range
saverSaveReturn ==
    /\ saverpc \in {"tick", "final"}
    /\ saveReturn
    /\ UNCHANGED engVars
    /\ UNCHANGED <<clients, sock, peerClosed, csceCh, socketState, rpc, waiting,
                   closing, frameVars, wpc, written>>
    /\ UNCHANGED notSrv

\* the tick's save() has returned; back to the select
saverTickDone ==
    /\ saverpc = "tick"
    /\ svpc = "idle"
    /\ saverpc' = "select"
    /\ UNCHANGED <<mainpc, started, terminating, server, cxns, termpc, accpc,
                   accConn, closeTodo>>
    /\ UNCHANGED <<clients, sock, peerClosed, csceCh, socketState, rpc, waiting,
                   closing, frameVars, wpc, written>>
    /\ UNCHANGED setVars
    /\ UNCHANGED notSrv

\* the final save() has returned; eng.saverTerminated <- struct{}{} meets
\* onTerminate's receive and the saver returns
saverTerminated ==
    /\ saverpc = "final"
    /\ svpc = "idle"
    /\ termpc = "await_saver"
    /\ saverpc' = "exited"
    /\ termpc' = "can_exit"
    /\ UNCHANGED <<mainpc, started, terminating, server, cxns, accpc, accConn,
                   closeTodo>>
    /\ UNCHANGED <<clients, sock, peerClosed, csceCh, socketState, rpc, waiting,
                   closing, frameVars, wpc, written>>
    /\ UNCHANGED setVars
    /\ UNCHANGED notSrv

\* one step of the engine, a connection or a client
NextSrv ==
    \/ StartServer
    \/ StopServer
    \/ WaitForTermination
    \/ \E c \in Conns : clientConnect(c)
    \/ \E c \in Conns : clientSendPart(c)
    \/ \E c \in Conns : clientSend(c)
    \/ \E c \in Conns : clientClose(c)
    \/ acceptConn
    \/ acceptClosed
    \/ acceptAppend
    \/ newClientCxn
    \/ \E c \in Conns : runInitialize(c)
    \/ \E c \in Conns : runTerminate(c)
    \/ \E c \in Conns : runWaitClosing(c)
    \/ \E c \in Conns : runWaitForCommand(c)
    \/ \E c \in Conns : onDispatchCommand(c)
    \/ \E c \in Conns : waitSetWaiting(c)
    \/ \E c \in Conns : waitRead(c)
    \/ \E c \in Conns : waitReadError(c)
    \/ \E c \in Conns : waitFailed(c)
    \/ \E c \in Conns : waitParse(c)
    \/ \E c \in Conns, k \in Reqs : workerHandlerError(c, k)
    \/ \E c \in Conns, k \in Reqs : workerSetKeyValue(c, k)
    \/ \E c \in Conns, k \in Reqs : workerDirtyAdd(c, k)
    \/ \E c \in Conns, k \in Reqs : workerWriteSize(c, k)
    \/ \E c \in Conns, k \in Reqs : workerWriteResponse(c, k)
    \/ \E c \in Conns, k \in Reqs : workerWriteFails(c, k)
    \/ termCloseServer
    \/ termCloseCxns
    \/ processAllClients
    \/ \E c \in Conns : RequestClose(c)
    \/ requestAllCxnClose
    \/ waitForAllCxnClose
    \/ pollAgain
    \/ termNoSaver
    \/ saverExit
    \/ canExit
    \/ saverTick
    \/ saverFinalSave
    \/ saverSaveStore
    \/ saverSaveReturn
    \/ saverTickDone
    \/ saverTerminated

(***************************************************************************)
(* Engine lifecycle: StartServer, StopServer, WaitForTermination and       *)
(* Dispatch called by several goroutines, with the client registry         *)
(***************************************************************************)
\* goroutines that call the engine's API
NumUsers == 2

\* API calls made in one run
MaxApiCalls == 4

\* socket clients accepted in one run
MaxAccepted == 2

Users == 1..NumUsers

\* persistPath arguments: in-memory and a directory
PersistPaths == {"", "/data"}

InitLife ==
    /\ eng = [started |-> FALSE, terminating |-> FALSE, server |-> "nil",
              tss |-> "nil", exitSaver |-> FALSE, canExit |-> FALSE, directCs |-> 0]
    /\ registry = <<>>
    /\ clientId = 0
    /\ upc = [u \in Users |-> "idle"]
    /\ ures = [u \in Users |-> "none"]
    /\ ucalls = 0
    /\ otpc = [u \in Users |-> "off"]
    /\ savers = 0

\* newClientState that numbers a client by the size of the registry instead of
\* the counter (a wrong version)
newClientStateCounts(kind) ==
    /\ clientId' = Cardinality(DOMAIN registry) + 1
    /\ registry' = [i \in DOMAIN registry \cup {Cardinality(DOMAIN registry) + 1} |->
                       IF i = Cardinality(DOMAIN registry) + 1
                          THEN [id |-> i, kind |-> kind, closing |-> FALSE]
                          ELSE registry[i]]

\* newClientState(l, client, dispatcher) under clientsMu: clientId++,
\* cs.id = clientId, clients[clientId] = cs
newClientState(kind) ==
    /\ clientId' = clientId + 1
    /\ registry' = [i \in DOMAIN registry \cup {clientId + 1} |->
                       IF i = clientId + 1
                          THEN [id |-> clientId + 1, kind |-> kind, closing |-> FALSE]
                          ELSE registry[i]]

\* cs.unregister() under clientsMu: delete(clients, cs.id)
unregister(cs) ==
    registry' = [i \in DOMAIN registry \ {cs.id} |-> registry[i]]

\* the engine after newTreeStoreSet, eng.canExit = make(chan) and periodicSave,
\* which makes eng.exitSaver and launches the saver when there is a base path
withSaver(path) ==
    [eng EXCEPT !.tss = IF path = "" THEN "memory" ELSE "disk",
                !.canExit = TRUE,
                !.exitSaver = IF path # "" THEN TRUE ELSE @]

\* StartServer called on a started engine: "already started"
startAgain(u) ==
    /\ upc[u] = "idle"
    /\ ucalls < MaxApiCalls
    /\ eng.started
    /\ ures' = [ures EXCEPT ![u] = "already started"]
    /\ ucalls' = ucalls + 1
    /\ UNCHANGED <<eng, registry, clientId, upc, otpc, savers>>
    /\ UNCHANGED notLife

\* StartServer: newTreeStoreSet returns an error (the directory cannot be read)
startNoStores(u) ==
    /\ upc[u] = "idle"
    /\ ucalls < MaxApiCalls
    /\ ~eng.started
    /\ ures' = [ures EXCEPT ![u] = "error"]
    /\ ucalls' = ucalls + 1
    /\ UNCHANGED <<eng, registry, clientId, upc, otpc, savers>>
    /\ UNCHANGED notLife

\* StartServer: the store set is built, periodicSave runs, then net.Listen in
\* startServer returns an error
startNoListen(u) ==
    /\ upc[u] = "idle"
    /\ ucalls < MaxApiCalls
    /\ ~eng.started
    /\ \E path \in PersistPaths :
          /\ eng' = withSaver(path)
          /\ savers' = IF path # "" THEN savers + 1 ELSE savers
    /\ ures' = [ures EXCEPT ![u] = "error"]
    /\ ucalls' = ucalls + 1
    /\ UNCHANGED <<registry, clientId, upc, otpc>>
    /\ UNCHANGED notLife

\* StartServer succeeds: the listener is open and eng.started = true
startOk(u) ==
    /\ upc[u] = "idle"
    /\ ucalls < MaxApiCalls
    /\ ~eng.started
    /\ \E path \in PersistPaths :
          /\ eng' = [withSaver(path) EXCEPT !.server = "listening", !.started = TRUE]
          /\ savers' = IF path # "" THEN savers + 1 ELSE savers
    /\ ures' = [ures EXCEPT ![u] = "ok"]
    /\ ucalls' = ucalls + 1
    /\ UNCHANGED <<registry, clientId, upc, otpc>>
    /\ UNCHANGED notLife

\* StopServer on an engine that is not started: "not started"
stopNotStarted(u) ==
    /\ upc[u] = "idle"
    /\ ucalls < MaxApiCalls
    /\ ~eng.started
    /\ ures' = [ures EXCEPT ![u] = "not started"]
    /\ ucalls' = ucalls + 1
    /\ UNCHANGED <<eng, registry, clientId, upc, otpc, savers>>
    /\ UNCHANGED notLife

\* StopServer that sets eng.terminating without reading it under the same lock:
\* every call launches eng.onTerminate
stopLockBlind(u) ==
    /\ upc[u] = "idle"
    /\ ucalls < MaxApiCalls
    /\ eng.started
    /\ otpc[u] = "off"
    /\ eng' = [eng EXCEPT !.terminating = TRUE]
    /\ upc' = [upc EXCEPT ![u] = "launch"]
    /\ ucalls' = ucalls + 1
    /\ UNCHANGED <<registry, clientId, ures, otpc, savers>>
    /\ UNCHANGED notLife

\* StopServer under eng.mu: isTerminating := eng.terminating; eng.terminating = true
stopLock(u) ==
    /\ upc[u] = "idle"
    /\ ucalls < MaxApiCalls
    /\ eng.started
    /\ eng' = [eng EXCEPT !.terminating = TRUE]
    /\ upc' = [upc EXCEPT ![u] = IF eng.terminating THEN "nolaunch" ELSE "launch"]
    /\ ucalls' = ucalls + 1
    /\ UNCHANGED <<registry, clientId, ures, otpc, savers>>
    /\ UNCHANGED notLife

\* StopServer after the unlock: go eng.onTerminate() unless isTerminating; return nil
stopLaunch(u) ==
    /\ upc[u] \in {"launch", "nolaunch"}
    /\ otpc' = IF upc[u] = "launch" THEN [otpc EXCEPT ![u] = "close"] ELSE otpc
    /\ upc' = [upc EXCEPT ![u] = "idle"]
    /\ ures' = [ures EXCEPT ![u] = "ok"]
    /\ UNCHANGED <<eng, registry, clientId, ucalls, savers>>
    /\ UNCHANGED notLife

\* WaitForTermination is called: the goroutine blocks in <-eng.canExit
waitCall(u) ==
    /\ upc[u] = "idle"
    /\ ucalls < MaxApiCalls
    /\ upc' = [upc EXCEPT ![u] = "waiting"]
    /\ ures' = [ures EXCEPT ![u] = "none"]
    /\ ucalls' = ucalls + 1
    /\ UNCHANGED <<eng, registry, clientId, otpc, savers>>
    /\ UNCHANGED notLife

\* Dispatch before the listener exists: "server not running"
dispatchNotRunning(u) ==
    /\ upc[u] = "idle"
    /\ ucalls < MaxApiCalls
    /\ eng.server = "nil"
    /\ ures' = [ures EXCEPT ![u] = "server not running"]
    /\ ucalls' = ucalls + 1
    /\ UNCHANGED <<eng, registry, clientId, upc, otpc, savers>>
    /\ UNCHANGED notLife

\* Dispatch: the first call makes eng.directCs with newClientState; the request
\* goes to dispatchHandler
dispatchDirect(u) ==
    /\ upc[u] = "idle"
    /\ ucalls < MaxApiCalls
    /\ eng.server # "nil"
    /\ IF eng.directCs = 0
          THEN /\ newClientState("direct")
               /\ eng' = [eng EXCEPT !.directCs = clientId + 1]
          ELSE UNCHANGED <<eng, registry, clientId>>
    /\ ures' = [ures EXCEPT ![u] = "ok"]
    /\ ucalls' = ucalls + 1
    /\ UNCHANGED <<upc, otpc, savers>>
    /\ UNCHANGED notLife

\* the accept goroutine: Accept returns a connection and newClientCxn makes its
\* client state
lifeAccept ==
    /\ eng.server = "listening"
    /\ Cardinality({i \in 1..clientId : i # eng.directCs}) < MaxAccepted
    /\ newClientState("socket")
    /\ UNCHANGED <<eng, upc, ures, ucalls, otpc, savers>>
    /\ UNCHANGED notLife

\* a connection's run loop processes csTerminate (the client went away, or
\* RequestClose queued the event): onTerminate unregisters the client state
lifeTerminate(i) ==
    /\ i \in DOMAIN registry
    /\ registry[i].kind = "socket"
    /\ unregister(registry[i])
    /\ UNCHANGED <<eng, clientId, upc, ures, ucalls, otpc, savers>>
    /\ UNCHANGED notLife

\* eng.onTerminate: eng.server.Close() and the connections of eng.cxns closed
lifeClose(t) ==
    /\ otpc[t] = "close"
    /\ eng' = [eng EXCEPT !.server = "closed"]
    /\ otpc' = [otpc EXCEPT ![t] = "request"]
    /\ UNCHANGED <<registry, clientId, upc, ures, ucalls, savers>>
    /\ UNCHANGED notLife

\* eng.onTerminate: requestAllCxnClose(), RequestClose for every registered
\* client: cc.closing = true and csTerminate queued
lifeRequestClose(t) ==
    /\ otpc[t] = "request"
    /\ registry' = [i \in DOMAIN registry |-> [registry[i] EXCEPT !.closing = TRUE]]
    /\ otpc' = [otpc EXCEPT ![t] = "poll"]
    /\ UNCHANGED <<eng, clientId, upc, ures, ucalls, savers>>
    /\ UNCHANGED notLife

\* eng.onTerminate: waitForAllCxnClose() returns once isClientActive() is false
lifeAllClosed(t) ==
    /\ otpc[t] = "poll"
    /\ DOMAIN registry = {}
    /\ otpc' = [otpc EXCEPT ![t] = "saver"]
    /\ UNCHANGED <<eng, registry, clientId, upc, ures, ucalls, savers>>
    /\ UNCHANGED notLife

\* eng.onTerminate: with eng.exitSaver, eng.exitSaver <- and <-eng.saverTerminated:
\* a saver takes the signal, saves and exits
lifeStopSaver(t) ==
    /\ otpc[t] = "saver"
    /\ IF eng.exitSaver
          THEN /\ savers > 0
               /\ savers' = savers - 1
          ELSE savers' = savers
    /\ otpc' = [otpc EXCEPT ![t] = "exit"]
    /\ UNCHANGED <<eng, registry, clientId, upc, ures, ucalls>>
    /\ UNCHANGED notLife

\* eng.onTerminate: eng.canExit <- struct{}{} on the unbuffered channel, taken by
\* one goroutine blocked in WaitForTermination, which returns
lifeCanExit(t, u) ==
    /\ otpc[t] = "exit"
    /\ upc[u] = "waiting"
    /\ eng.canExit
    /\ otpc' = [otpc EXCEPT ![t] = "done"]
    /\ upc' = [upc EXCEPT ![u] = "idle"]
    /\ ures' = [ures EXCEPT ![u] = "returned"]
    /\ UNCHANGED <<eng, registry, clientId, ucalls, savers>>
    /\ UNCHANGED notLife

NextLife ==
    \/ \E u \in Users : startAgain(u)
    \/ \E u \in Users : startNoStores(u)
    \/ \E u \in Users : startNoListen(u)
    \/ \E u \in Users : startOk(u)
    \/ \E u \in Users : stopNotStarted(u)
    \/ \E u \in Users : stopLock(u)
    \/ \E u \in Users : stopLaunch(u)
    \/ \E u \in Users : waitCall(u)
    \/ \E u \in Users : dispatchNotRunning(u)
    \/ \E u \in Users : dispatchDirect(u)
    \/ lifeAccept
    \/ \E i \in 1..(MaxAccepted + 1) : lifeTerminate(i)
    \/ \E t \in Users : lifeClose(t)
    \/ \E t \in Users : lifeRequestClose(t)
    \/ \E t \in Users : lifeAllClosed(t)
    \/ \E t \in Users : lifeStopSaver(t)
    \/ \E t, u \in Users : lifeCanExit(t, u)

(***************************************************************************)
(* Pure functions: one call, its argument drawn at the start               *)
(***************************************************************************)
\* no call of a pure function is under way
IdleFn == fnIn = <<>> /\ fnOut = <<>> /\ fnDone = FALSE

\* the parts that a call of a pure function does not touch, at their start
IdleParts == InitFSM /\ IdleSet /\ IdleDisp /\ InitSrv /\ InitLife

\* all sequences over S of length 0..n
SeqsUpTo(S, n) == UNION {[1..k -> S] : k \in 0..n}

\* strings.HasPrefix(s, prefix)
HasPrefix(s, prefix) ==
    Len(s) >= Len(prefix) /\ SubSeq(s, 1, Len(prefix)) = prefix

\* strings.HasSuffix(s, suffix)
HasSuffix(s, suffix) ==
    Len(s) >= Len(suffix) /\ SubSeq(s, Len(s) - Len(suffix) + 1, Len(s)) = suffix

RECURSIVE TrimLeft(_, _)
\* strings.TrimLeft(s, cutset): leading characters of the cutset removed
TrimLeft(s, cutset) ==
    IF s # <<>> /\ Head(s) \in cutset THEN TrimLeft(Tail(s), cutset) ELSE s

RECURSIVE TrimRight(_, _)
\* strings.TrimRight(s, cutset): trailing characters of the cutset removed
TrimRight(s, cutset) ==
    IF s # <<>> /\ s[Len(s)] \in cutset
       THEN TrimRight(SubSeq(s, 1, Len(s) - 1), cutset) ELSE s

\* strings.Trim(s, cutset): characters of the cutset removed at both ends
Trim(s, cutset) == TrimRight(TrimLeft(s, cutset), cutset)

\* ---- newTreeStoreSet: discovery of the store files ----

\* the characters of file names: the dot, the letters of "db" and another letter
FileChars == {".", "a", "b", "d"}

\* fileBase, the file part of basePath
FileBase == <<"a">>

\* the suffix ".db" of a store file
DbSuffix == <<".", "d", "b">>

\* the names a regular file of the directory can have
FileNames == SeqsUpTo(FileChars, MaxFileLen)

\* the WalkDir callback for one regular file: the names of the stores it creates
\* and loads (none when the file does not match or the trimmed name is empty)
walkFile(fileName) ==
    IF HasPrefix(fileName, FileBase) /\ HasSuffix(fileName, DbSuffix)
       THEN LET name == Trim(SubSeq(fileName, Len(FileBase) + 1, Len(fileName)),
                             {".", "d", "b"})
            IN  IF Len(name) > 0 THEN {name} ELSE {}
       ELSE {}

\* a directory with one regular file, whatever its name
InitDiscover ==
    /\ IdleParts
    /\ fnIn \in FileNames
    /\ fnOut = {}
    /\ fnDone = FALSE

\* newTreeStoreSet(l, basePath, appVersion) walks the directory
discover ==
    /\ ~fnDone
    /\ fnOut' = walkFile(fnIn)
    /\ fnDone' = TRUE
    /\ UNCHANGED fnIn
    /\ UNCHANGED notFn

\* ---- the value codec: valueEscape / valueUnescape ----

\* the byte values the codec is run on: control bytes, printable ones (digits,
\* hex letters of both cases, a letter that is no hex digit), the backslash,
\* 0x7F and bytes above it
SampleBytes == {0, 10, 31, 32, 49, 52, 65, 70, 71, 92, 102, 127, 128, 255}

ByteArrays == SeqsUpTo(SampleBytes, MaxBytes)

\* the escape test without the backslash: only the bytes outside 32..127
needsEscapeButBackslash(by) == by < 32 \/ by > 127

\* bytesToEscapedValue: by < 32 || by == '\\' || by > 127
needsEscape(by) == by < 32 \/ by = 92 \/ by > 127

\* one uppercase hex digit, as fmt's %X writes it
hexDigit(n) == IF n < 10 THEN 48 + n ELSE 55 + n

RECURSIVE bytesToEscapedValue(_)
\* bytesToEscapedValue(v): \HH (fmt "\\%02X") for a byte to escape, else the byte
bytesToEscapedValue(v) ==
    IF v = <<>> THEN <<>>
    ELSE (IF needsEscape(Head(v))
             THEN <<92, hexDigit(Head(v) \div 16), hexDigit(Head(v) % 16)>>
             ELSE <<Head(v)>>) \o bytesToEscapedValue(Tail(v))

\* valueEscape(v) for a []byte or a string
valueEscape(v) == bytesToEscapedValue(v)

\* the value of a hex digit as hex.DecodeString reads it, -1 for any other byte
fromHexChar(c) ==
    IF c \in 48..57 THEN c - 48
    ELSE IF c \in 65..70 THEN c - 55
    ELSE IF c \in 97..102 THEN c - 87
    ELSE -1

RECURSIVE unescapeFrom(_, _)
\* the loop of valueUnescape from position pos (counted from 1): a backslash
\* with two bytes after it that decode as hex gives one byte, else the byte as is
unescapeFrom(v, pos) ==
    IF pos > Len(v) THEN <<>>
    ELSE IF /\ v[pos] = 92
            /\ pos + 2 <= Len(v)
            /\ fromHexChar(v[pos + 1]) >= 0
            /\ fromHexChar(v[pos + 2]) >= 0
         THEN <<16 * fromHexChar(v[pos + 1]) + fromHexChar(v[pos + 2])>>
                  \o unescapeFrom(v, pos + 3)
         ELSE <<v[pos]>> \o unescapeFrom(v, pos + 1)

\* valueUnescape(v)
valueUnescape(v) == unescapeFrom(v, 1)

\* a byte array about to be escaped and unescaped again
InitEscape ==
    /\ IdleParts
    /\ fnIn \in ByteArrays
    /\ fnOut = [text |-> <<>>, back |-> <<>>]
    /\ fnDone = FALSE

\* valueUnescape(valueEscape(B))
escapeRoundTrip ==
    /\ ~fnDone
    /\ fnOut' = [text |-> valueEscape(fnIn),
                 back |-> valueUnescape(valueEscape(fnIn))]
    /\ fnDone' = TRUE
    /\ UNCHANGED fnIn
    /\ UNCHANGED notFn

\* ---- typed values: valueFromCmdLine / addValueToResponse ----

\* the fixed-width integer tags of --value-type
IntTags == {"int8", "int16", "int32", "int64", "uint8", "uint16", "uint32", "uint64"}

\* the width in bytes that valueFromCmdLine asks of a value of each tag
widthOf(valueType) ==
    CASE valueType \in {"int8", "uint8"} -> 1
      [] valueType \in {"int16", "uint16"} -> 2
      [] valueType \in {"int32", "uint32"} -> 4
      [] valueType \in {"int64", "uint64"} -> 8

\* the byte values typed values are built from
ValueBytes == {0, 92, 128, 255}

\* what setv is given: a tag and a byte string of the tag's width
TypedInputs ==
    UNION {[valueType : {t}, value : [1..widthOf(t) -> ValueBytes]] : t \in IntTags}

\* binary.BigEndian.Uint16(b)
Uint16(b) == b[1] * 256 + b[2]

\* binary.BigEndian.Uint32 / Uint64 (b), as digits of base 65536
UintWide(b) == [i \in 1..(Len(b) \div 2) |-> b[2 * i - 1] * 256 + b[2 * i]]

\* the conversion of an unsigned number of 8 or 16 bits to the signed type: int8(x), int16(x)
toSigned(n, bits) == IF n >= 2 ^ (bits - 1) THEN n - 2 ^ bits ELSE n

\* the conversion of a signed number to the unsigned type: byte(t), uint16(t)
toUnsigned(n, bits) == n % (2 ^ bits)

\* binary.BigEndian.PutUint16(by, x)
PutUint16(x) == <<x \div 256, x % 256>>

\* binary.BigEndian.PutUint32 / PutUint64 (by, x) from the digits of base 65536
PutUintWide(x) ==
    [i \in 1..(2 * Len(x)) |-> IF i % 2 = 1 THEN x[(i + 1) \div 2] \div 256
                                              ELSE x[i \div 2] % 256]

\* valueFromCmdLine(ctx, args, exactIndex) for no tag, a fixed-width integer tag
\* and a tag that is no type: the Go value stored, as its dynamic type and its
\* number (wide ones keep their bits, as int32(x) and int64(x) do), or the error
valueFromCmdLine(value, valueType) ==
    IF valueType = ""
       THEN [err |-> "", goType |-> "[]byte", num |-> value]
    ELSE IF valueType \notin IntTags
       THEN [err |-> "unrecognized value type " \o valueType, goType |-> "", num |-> 0]
    ELSE IF Len(value) # widthOf(valueType)
       THEN [err |-> "invalid " \o valueType \o " value", goType |-> "", num |-> 0]
       ELSE CASE valueType = "int8" ->
                   [err |-> "", goType |-> "int8", num |-> toSigned(value[1], 8)]
              [] valueType = "int16" ->
                   [err |-> "", goType |-> "int16", num |-> toSigned(Uint16(value), 16)]
              [] valueType = "int32" ->
                   [err |-> "", goType |-> "int32", num |-> UintWide(value)]
              [] valueType = "int64" ->
                   [err |-> "", goType |-> "int64", num |-> UintWide(value)]
              [] valueType = "uint8" ->
                   [err |-> "", goType |-> "int8", num |-> toSigned(value[1], 8)]
              [] valueType = "uint16" ->
                   [err |-> "", goType |-> "uint16", num |-> Uint16(value)]
              [] valueType = "uint32" ->
                   [err |-> "", goType |-> "uint32", num |-> UintWide(value)]
              [] valueType = "uint64" ->
                   [err |-> "", goType |-> "uint64", num |-> UintWide(value)]

\* addValueToResponse(ctx, val) for []byte and the integer types: the bytes of a
\* []byte, the bytes written big-endian of a number
bytesOfValue(val) ==
    CASE val.goType = "[]byte" -> val.num
      [] val.goType = "int8" -> <<toUnsigned(val.num, 8)>>
      [] val.goType = "uint8" -> <<val.num>>
      [] val.goType = "int16" -> PutUint16(toUnsigned(val.num, 16))
      [] val.goType = "uint16" -> PutUint16(val.num)
      [] val.goType \in {"int32", "uint32", "int64", "uint64"} -> PutUintWide(val.num)

\* addValueToResponse(ctx, val): the fields it sets in the response: "value" alone
\* for a []byte, "value" and "type" for the integer types
addValueToResponse(val) ==
    IF val.goType = "[]byte"
       THEN [value |-> bytesToEscapedValue(bytesOfValue(val))]
       ELSE [value |-> bytesToEscapedValue(bytesOfValue(val)), type |-> val.goType]

\* a value about to be stored by setv --value-type T and read by getv
InitTyped ==
    /\ IdleParts
    /\ fnIn \in TypedInputs
    /\ fnOut = [value |-> <<>>, type |-> ""]
    /\ fnDone = FALSE

\* fnSetKeyValue stores valueFromCmdLine's value; fnGetKeyValue answers with
\* addValueToResponse of the stored value
setvGetv ==
    /\ ~fnDone
    /\ fnOut' = addValueToResponse(valueFromCmdLine(fnIn.value, fnIn.valueType))
    /\ fnDone' = TRUE
    /\ UNCHANGED fnIn
    /\ UNCHANGED notFn

\* ---- raw requests: the socket parser and the embedded Dispatch ----

\* the longest packet and the most embedded arguments tried
MaxPacket == 4
MaxArgs == 2
MaxArgLen == 2

\* packet bytes: line feed, 'A', backslash, '4', '1'
PacketBytes == {10, 65, 92, 52, 49}

\* bytes.Split(packet, []byte("\n"))
RECURSIVE Split(_)
Split(packet) ==
    IF \A i \in 1..Len(packet) : packet[i] # 10
       THEN <<packet>>
       ELSE LET i == CHOOSE j \in 1..Len(packet) :
                        packet[j] = 10 /\ \A k \in 1..(j - 1) : packet[k] # 10
            IN  <<SubSeq(packet, 1, i - 1)>> \o Split(SubSeq(packet, i + 1, Len(packet)))

\* the body of the loop over escapedArgs, the same in parseCommand and in Dispatch
appendArg(req, escapedArg) ==
    [args  |-> Append(req.args, escapedArg),
     exact |-> IF \A i \in 1..Len(escapedArg) : escapedArg[i] # 92
                  THEN Append(req.exact, escapedArg)
                  ELSE Append(req.exact, valueUnescape(escapedArg))]

RECURSIVE appendArgs(_, _)
appendArgs(req, escapedArgs) ==
    IF escapedArgs = <<>> THEN req
    ELSE appendArgs(appendArg(req, Head(escapedArgs)), Tail(escapedArgs))

\* the rawRequest parseCommand makes of a complete packet
parsedRequest(packet) == appendArgs([exact |-> <<>>, args |-> <<>>], Split(packet))

\* the rawRequest Dispatch makes of its arguments: exact starts as escapedArgs
directRequest(escapedArgs) == appendArgs([exact |-> escapedArgs, args |-> <<>>], escapedArgs)

RawInputs ==
    [path : {"socket"}, data : SeqsUpTo(PacketBytes, MaxPacket)]
      \cup [path : {"embedded"},
            data : SeqsUpTo(SeqsUpTo(PacketBytes \ {10}, MaxArgLen), MaxArgs)]

InitRaw ==
    /\ IdleParts
    /\ fnIn \in RawInputs
    /\ fnOut = [exact |-> <<>>, args |-> <<>>]
    /\ fnDone = FALSE

\* parseCommand on a buffer that holds the whole frame
socketParse ==
    /\ ~fnDone
    /\ fnIn.path = "socket"
    /\ fnOut' = parsedRequest(fnIn.data)
    /\ fnDone' = TRUE
    /\ UNCHANGED fnIn
    /\ UNCHANGED notFn

\* Dispatch on a running engine
embeddedDispatch ==
    /\ ~fnDone
    /\ fnIn.path = "embedded"
    /\ fnOut' = directRequest(fnIn.data)
    /\ fnDone' = TRUE
    /\ UNCHANGED fnIn
    /\ UNCHANGED notFn

\* ---- commands that fail: dispatchHandler, the handlers and the worker ----

\* the commands a client sends on one connection
NumCmds == 2

\* setv and setex with their options, and a command name that is not registered
CmdInputs ==
    [name : {"setv"}, valueType : {"", "int8", "int16", "bogus"},
     value : SeqsUpTo({0, 255}, 2), hasValue : {TRUE}, hasNil : {FALSE}]
      \cup [name : {"setex"}, valueType : {"", "int8"}, value : {<<>>, <<0>>},
            hasValue : BOOLEAN, hasNil : BOOLEAN]
      \cup [name : {"nosuch"}, valueType : {""}, value : {<<>>},
            hasValue : {FALSE}, hasNil : {FALSE}]

\* what a handler leaves behind: its error, the response keys it set, the store
\* (the values set so far) and the dirty counter
handlerResult(err, keys, ts, dirtyCount) ==
    [err |-> err, keys |-> keys, store |-> ts, dirty |-> dirtyCount]

\* fnSetKeyValue that sets the key before it looks at the value's error (a wrong version)
fnSetKeyValueSetsFirst(cmd, ts, dirtyCount) ==
    LET v == valueFromCmdLine(cmd.value, cmd.valueType)
    IN  handlerResult(v.err, IF v.err # "" THEN {} ELSE {"address", "firstValue"},
                      Append(ts, v), dirtyCount + 1)

\* fnSetKeyValue
fnSetKeyValue(cmd, ts, dirtyCount) ==
    LET v == valueFromCmdLine(cmd.value, cmd.valueType)
    IN  IF v.err # ""
           THEN handlerResult(v.err, {}, ts, dirtyCount)
           ELSE handlerResult("", {"address", "firstValue"}, Append(ts, v),
                              dirtyCount + 1)

\* setEx without --sec, --ns and --relationships
setEx(value, ts, dirtyCount) ==
    handlerResult("", {"address", "exists"}, Append(ts, value), dirtyCount + 1)

\* fnSetEx
fnSetEx(cmd, ts, dirtyCount) ==
    IF cmd.hasValue
       THEN IF cmd.hasNil
               THEN handlerResult("--value and --nil are mutually exclusive", {},
                                  ts, dirtyCount)
               ELSE LET v == valueFromCmdLine(cmd.value, cmd.valueType)
                    IN  IF v.err # ""
                           THEN handlerResult(v.err, {}, ts, dirtyCount)
                           ELSE setEx(v, ts, dirtyCount)
       ELSE IF ~cmd.hasNil
               THEN setEx([err |-> "", goType |-> "SetExNoValueUpdate", num |-> 0],
                          ts, dirtyCount)
               ELSE setEx([err |-> "", goType |-> "nil", num |-> 0], ts, dirtyCount)

\* cd.cmdLine.ProcessWithContext(ctx, req.args): the argv parser picks the handler,
\* or fails before any handler runs
ProcessWithContext(cmd, ts, dirtyCount) ==
    CASE cmd.name = "setv" -> fnSetKeyValue(cmd, ts, dirtyCount)
      [] cmd.name = "setex" -> fnSetEx(cmd, ts, dirtyCount)
      [] OTHER -> handlerResult("unrecognized command", {}, ts, dirtyCount)

\* dispatchHandler that returns the handler's error as its own (a wrong version)
dispatchHandlerKeepsErr(cmd, ts, dirtyCount) ==
    LET r == ProcessWithContext(cmd, ts, dirtyCount)
    IN  [output |-> [keys  |-> IF r.err # "" THEN r.keys \cup {"error"} ELSE r.keys,
                     error |-> r.err],
         err |-> r.err, herr |-> r.err, store |-> r.store, dirty |-> r.dirty]

\* dispatchHandler without an op-log sink: the handler's error becomes
\* response["error"]; err is then what the encoder returns, nil
dispatchHandler(cmd, ts, dirtyCount) ==
    LET r == ProcessWithContext(cmd, ts, dirtyCount)
    IN  [output |-> [keys  |-> IF r.err # "" THEN r.keys \cup {"error"} ELSE r.keys,
                     error |-> r.err],
         err |-> "", herr |-> r.err, store |-> r.store, dirty |-> r.dirty]

\* a connection in WaitForCommand whose client sends NumCmds commands and keeps
\* its end open; the store is empty and clean
InitCmd ==
    /\ IdleParts
    /\ fnIn \in [1..NumCmds -> CmdInputs]
    /\ fnOut = [pc |-> "dispatch", n |-> 1, store |-> <<>>, dirty |-> 0,
                before |-> [store |-> <<>>, dirty |-> 0], herr |-> "", err |-> "",
                output |-> [keys |-> {}, error |-> ""], replies |-> <<>>,
                sock |-> "open", queued |-> ""]
    /\ fnDone = FALSE

\* worker: response, err := cc.cs.dispatch(cmd)
cmdDispatch ==
    /\ fnOut.pc = "dispatch"
    /\ LET d == dispatchHandler(fnIn[fnOut.n], fnOut.store, fnOut.dirty)
       IN  fnOut' = [fnOut EXCEPT !.pc = "write",
                                  !.before = [store |-> fnOut.store, dirty |-> fnOut.dirty],
                                  !.store = d.store, !.dirty = d.dirty,
                                  !.herr = d.herr, !.err = d.err,
                                  !.output = d.output, !.queued = ""]
    /\ UNCHANGED <<fnIn, fnDone>>
    /\ UNCHANGED notFn

\* worker: on a dispatch error the socket is closed; otherwise the size and the
\* response are written and csWaitForCommand is queued
cmdReply ==
    /\ fnOut.pc = "write"
    /\ IF fnOut.err # ""
          THEN fnOut' = [fnOut EXCEPT !.pc = "end", !.sock = "closed"]
          ELSE fnOut' = [fnOut EXCEPT !.pc = "wait",
                                      !.replies = Append(@, fnOut.output),
                                      !.queued = "csWaitForCommand"]
    /\ UNCHANGED <<fnIn, fnDone>>
    /\ UNCHANGED notFn

\* onWaitForCommand reads and parses the client's next command
cmdNext ==
    /\ fnOut.pc = "wait"
    /\ fnOut.sock = "open"
    /\ IF fnOut.n < NumCmds
          THEN fnOut' = [fnOut EXCEPT !.pc = "dispatch", !.n = @ + 1] /\ UNCHANGED fnDone
          ELSE fnDone = FALSE /\ fnDone' = TRUE /\ UNCHANGED fnOut
    /\ UNCHANGED fnIn
    /\ UNCHANGED notFn

\* ---- frames: parseCommand on the bytes of cc.inbound ----

\* the longest inbound buffer tried
MaxInbound == 8

\* the bytes of a buffer: 0, 1, line feed, 255
FrameBytes == {0, 1, 2, 10, 255}

InboundBuffers == SeqsUpTo(FrameBytes, MaxInbound)

\* parseCommand that takes everything buffered after the header as the packet
\* (a wrong version)
parseFrameTakesAll(inbound) ==
    IF Len(inbound) < 4
       THEN [length |-> 0, req |-> [exact |-> <<>>, args |-> <<>>]]
       ELSE LET packetSize == UintWide(SubSeq(inbound, 1, 4))
            IN  IF packetSize[1] > 0 \/ Len(inbound) - 4 < packetSize[2]
                   THEN [length |-> 0, req |-> [exact |-> <<>>, args |-> <<>>]]
                   ELSE [length |-> Len(inbound),
                         req |-> parsedRequest(SubSeq(inbound, 5, Len(inbound)))]

\* parseCommand() on cc.inbound, in a build whose int has 64 bits: int(packetSize)
\* is the number itself, and a buffer is shorter than 65536 bytes here, so a
\* number with a high digit is more than what is buffered
parseFrame(inbound) ==
    IF Len(inbound) < 4
       THEN [length |-> 0, req |-> [exact |-> <<>>, args |-> <<>>]]
       ELSE LET packetSize == UintWide(SubSeq(inbound, 1, 4))
            IN  IF packetSize[1] > 0 \/ Len(inbound) - 4 < packetSize[2]
                   THEN [length |-> 0, req |-> [exact |-> <<>>, args |-> <<>>]]
                   ELSE [length |-> 4 + packetSize[2],
                         req |-> parsedRequest(SubSeq(inbound, 5, 4 + packetSize[2]))]

\* cc.inbound after a read
InitFrame ==
    /\ IdleParts
    /\ fnIn \in InboundBuffers
    /\ fnOut = [length |-> 0, req |-> [exact |-> <<>>, args |-> <<>>],
                inbound |-> <<>>, queued |-> ""]
    /\ fnDone = FALSE

\* onWaitForCommand from the call of parseCommand on: nothing complete, a frame to
\* dispatch, or a negative length
frameParsed ==
    /\ ~fnDone
    /\ LET p == parseFrame(fnIn)
       IN  fnOut' = [length |-> p.length, req |-> p.req,
                     inbound |-> IF p.length > 0
                                    THEN SubSeq(fnIn, p.length + 1, Len(fnIn))
                                    ELSE fnIn,
                     queued |-> IF p.length = 0 THEN "csWaitForCommand"
                                ELSE IF p.length > 0 THEN "csDispatchCommand"
                                ELSE "csTerminate"]
    /\ fnDone' = TRUE
    /\ UNCHANGED fnIn
    /\ UNCHANGED notFn

\* ---- keys: fnSetKey (setk) and fnLocateKey (getk) ----

\* the commands of one run
NumKeyCmds == 3

\* key paths of one and two segments
KeyPaths == {<<"a">>, <<"b">>, <<"a", "a">>, <<"a", "b">>, <<"b", "a">>}

KeyCmds == [name : {"setk", "getk"}, key : KeyPaths]

\* the key nodes a path needs: the path and the paths above it
pathNodes(key) == {SubSeq(key, 1, k) : k \in 1..Len(key)}

\* ctx.cs.ts.SetKey(sk) as fnSetKey uses it: the address of the key and whether it
\* existed; a key that did not exist is made, with the nodes above it that are
\* missing, each taking the next address
SetKey(ts, key) ==
    IF key \in DOMAIN ts.keys
       THEN [address |-> ts.keys[key], exists |-> TRUE, ts |-> ts]
       ELSE LET missing == {q \in pathNodes(key) : q \notin DOMAIN ts.keys}
                first == Len(key) - Cardinality(missing) + 1
                keys == [q \in DOMAIN ts.keys \cup missing |->
                            IF q \in DOMAIN ts.keys THEN ts.keys[q]
                            ELSE ts.next + (Len(q) - first)]
            IN  [address |-> keys[key], exists |-> FALSE,
                 ts |-> [keys |-> keys, next |-> ts.next + Cardinality(missing)]]

\* ctx.cs.ts.LocateKey(sk) as fnLocateKey uses it
LocateKey(ts, key) ==
    IF key \in DOMAIN ts.keys
       THEN [address |-> ts.keys[key], exists |-> TRUE]
       ELSE [address |-> 0, exists |-> FALSE]

\* fnSetKey that counts every setk as a change (a wrong version)
fnSetKeyAlwaysDirty(ts, dirtyCount, key) ==
    LET r == SetKey(ts, key)
    IN  [response |-> [fields |-> {"address", "exists"}, address |-> r.address,
                       exists |-> r.exists],
         ts |-> r.ts, dirty |-> dirtyCount + 1]

\* fnSetKey: the response holds address and exists; dirty.Add(1) if the key is new
fnSetKey(ts, dirtyCount, key) ==
    LET r == SetKey(ts, key)
    IN  [response |-> [fields |-> {"address", "exists"}, address |-> r.address,
                       exists |-> r.exists],
         ts |-> r.ts,
         dirty |-> IF ~r.exists THEN dirtyCount + 1 ELSE dirtyCount]

\* fnLocateKey: the response holds address if the key exists
fnLocateKey(ts, dirtyCount, key) ==
    LET r == LocateKey(ts, key)
    IN  [response |-> IF r.exists
                         THEN [fields |-> {"address"}, address |-> r.address,
                               exists |-> FALSE]
                         ELSE [fields |-> {}, address |-> 0, exists |-> FALSE],
         ts |-> ts, dirty |-> dirtyCount]

\* an empty, clean store whose first key takes address 2, and the commands to run
InitKey ==
    /\ IdleParts
    /\ fnIn \in [1..NumKeyCmds -> KeyCmds]
    /\ fnOut = [n |-> 0, ts |-> [keys |-> <<>>, next |-> 2], dirty |-> 0,
                replies |-> <<>>, dirties |-> <<0>>]
    /\ fnDone = FALSE

\* the next command is setk
runSetKey ==
    /\ fnOut.n < NumKeyCmds
    /\ fnIn[fnOut.n + 1].name = "setk"
    /\ LET r == fnSetKey(fnOut.ts, fnOut.dirty, fnIn[fnOut.n + 1].key)
       IN  fnOut' = [n |-> fnOut.n + 1, ts |-> r.ts, dirty |-> r.dirty,
                     replies |-> Append(fnOut.replies, r.response),
                     dirties |-> Append(fnOut.dirties, r.dirty)]
    /\ fnDone' = (fnOut.n + 1 = NumKeyCmds)
    /\ UNCHANGED fnIn
    /\ UNCHANGED notFn

\* the next command is getk
runLocateKey ==
    /\ fnOut.n < NumKeyCmds
    /\ fnIn[fnOut.n + 1].name = "getk"
    /\ LET r == fnLocateKey(fnOut.ts, fnOut.dirty, fnIn[fnOut.n + 1].key)
       IN  fnOut' = [n |-> fnOut.n + 1, ts |-> r.ts, dirty |-> r.dirty,
                     replies |-> Append(fnOut.replies, r.response),
                     dirties |-> Append(fnOut.dirties, r.dirty)]
    /\ fnDone' = (fnOut.n + 1 = NumKeyCmds)
    /\ UNCHANGED fnIn
    /\ UNCHANGED notFn

\* ---- getv: fnGetKeyValue ----

\* the longest raw value stored
MaxRaw == 2

\* what getv finds at the key: a raw value stored by setv without --value-type,
\* a key without a value (made by setk), or no key
GetvInputs ==
    [at : {"value"}, value : SeqsUpTo(SampleBytes, MaxRaw) \ {<<>>}]
      \cup [at : {"novalue", "nokey"}, value : {<<>>}]

\* ctx.cs.ts.GetKeyValue(sk) as fnGetKeyValue uses it: the value setv stored,
\* whether the key exists and whether it has a value
GetKeyValue(in) ==
    [val |-> valueFromCmdLine(in.value, ""),
     keyExists |-> in.at # "nokey",
     valExists |-> in.at = "value"]

\* fnGetKeyValue: key_exists, and the fields of addValueToResponse if there is a value
fnGetKeyValue(in) ==
    LET r == GetKeyValue(in)
    IN  IF r.valExists
           THEN [key_exists |-> r.keyExists] @@ addValueToResponse(r.val)
           ELSE [key_exists |-> r.keyExists]

InitGetv ==
    /\ IdleParts
    /\ fnIn \in GetvInputs
    /\ fnOut = <<>>
    /\ fnDone = FALSE

\* getv of the key
getv ==
    /\ ~fnDone
    /\ fnOut' = fnGetKeyValue(fnIn)
    /\ fnDone' = TRUE
    /\ UNCHANGED fnIn
    /\ UNCHANGED notFn

\* ---- the value codec called on any input ----

\* longest text given to valueUnescape
MaxText == 4

\* a backslash, hex digits of both cases and a letter that is no hex digit
TextChars == {92, 49, 52, 70, 71, 102}

\* a call of valueEscape with a []byte (nil, empty or not) or of valueUnescape
\* with a text
CodecCalls ==
    [fn : {"valueEscape"}, isNil : {FALSE}, v : SeqsUpTo({0, 65, 92}, 2)]
      \cup [fn : {"valueEscape"}, isNil : {TRUE}, v : {<<>>}]
      \cup [fn : {"valueUnescape"}, isNil : {FALSE}, v : SeqsUpTo(TextChars, MaxText)]

\* valueEscape(v) with v a []byte: bytesToEscapedValue(t).(string), where
\* bytesToEscapedValue returns the nil interface for a nil slice and the type
\* assertion on it panics
valueEscapeOf(in) ==
    IF in.isNil
       THEN [panic |-> TRUE, out |-> <<>>]
       ELSE [panic |-> FALSE, out |-> valueEscape(in.v)]

InitCodec ==
    /\ IdleParts
    /\ fnIn \in CodecCalls
    /\ fnOut = [panic |-> FALSE, out |-> <<>>]
    /\ fnDone = FALSE

\* the call of valueEscape
codecEscape ==
    /\ ~fnDone
    /\ fnIn.fn = "valueEscape"
    /\ fnOut' = valueEscapeOf(fnIn)
    /\ fnDone' = TRUE
    /\ UNCHANGED fnIn
    /\ UNCHANGED notFn

\* the call of valueUnescape
codecUnescape ==
    /\ ~fnDone
    /\ fnIn.fn = "valueUnescape"
    /\ fnOut' = [panic |-> FALSE, out |-> valueUnescape(fnIn.v)]
    /\ fnDone' = TRUE
    /\ UNCHANGED fnIn
    /\ UNCHANGED notFn

\* ---- the dirty counter: atomic.Int32, Add(1) by the handlers, Swap(0) by save ----

\* steps (runs of increments, saves) in one run
MaxDirtySteps == 4

\* numbers of increments between two saves, written as 16-bit halves <<high, low>>:
\* 1, 2, 2^31 - 1, 2^31 and 2^32 - 1
IncrementRuns == { <<0, 1>>, <<0, 2>>, <<32767, 65535>>, <<32768, 0>>, <<65535, 65535>> }

\* the 32-bit word after k more Add(1): the sum modulo 2^32, in 16-bit halves
addInt32(word, k) ==
    << (word[1] + k[1] + (word[2] + k[2]) \div 65536) % 65536, (word[2] + k[2]) % 65536 >>

\* the word read as an int32 is > 0: not zero and the sign bit clear
positiveInt32(word) == word # <<0, 0>> /\ word[1] < 32768

\* the count of increments as a number of three 16-bit digits, not wrapped at 32 bits
addCount(n, k) ==
    << n[1] + (n[2] + k[1] + (n[3] + k[2]) \div 65536) \div 65536,
       (n[2] + k[1] + (n[3] + k[2]) \div 65536) % 65536,
       (n[3] + k[2]) % 65536 >>

InitDirty ==
    /\ IdleParts
    /\ fnIn = <<>>
    /\ fnOut = [dirty |-> <<0, 0>>, since |-> <<0, 0, 0>>, steps |-> 0,
                saved |-> "none", before |-> <<0, 0>>, counted |-> <<0, 0, 0>>]
    /\ fnDone = FALSE

\* handlers call tss.dirty.Add(1) k times
dirtyAddRun ==
    /\ fnOut.steps < MaxDirtySteps
    /\ \E k \in IncrementRuns :
          fnOut' = [fnOut EXCEPT !.dirty = addInt32(@, k),
                                 !.since = addCount(@, k),
                                 !.steps = @ + 1,
                                 !.saved = "none"]
    /\ UNCHANGED <<fnIn, fnDone>>
    /\ UNCHANGED notFn

\* save(): if tss.dirty.Swap(0) > 0 { the stores are written }
dirtySave ==
    /\ fnOut.steps < MaxDirtySteps
    /\ fnOut' = [fnOut EXCEPT !.dirty = <<0, 0>>, !.since = <<0, 0, 0>>,
                              !.steps = @ + 1,
                              !.saved = IF positiveInt32(fnOut.dirty) THEN "written" ELSE "skipped",
                              !.before = fnOut.dirty, !.counted = fnOut.since]
    /\ UNCHANGED <<fnIn, fnDone>>
    /\ UNCHANGED notFn

(***************************************************************************)
(* Specifications                                                          *)
(***************************************************************************)
\* one client state and the goroutines that capture and unblock it
InitOfFSM == InitFSM /\ IdleSet /\ IdleDisp /\ InitSrv /\ InitLife /\ IdleFn

SpecFSM == InitOfFSM /\ [][NextFSM]_vars

\* one store set, its callers and a goroutine that saves it
InitOfSet == InitFSM /\ InitSet /\ IdleDisp /\ InitSrv /\ InitLife /\ IdleFn

SpecSet == InitOfSet /\ [][NextSet]_vars

\* one dispatcher and the goroutines that dispatch through it
InitOfDisp == InitFSM /\ IdleSet /\ InitDisp /\ InitSrv /\ InitLife /\ IdleFn

SpecDisp == InitOfDisp /\ [][NextDisp]_vars

\* the server: the program that starts and stops it, its clients, the accept
\* goroutine, the connections' run loops and workers, the terminator and the saver
InitOfSrv == InitFSM /\ InitSet /\ IdleDisp /\ InitSrv /\ InitLife /\ IdleFn

Spec == InitOfSrv /\ [][NextSrv]_vars

\* the construction of a store set over a directory that holds one file
SpecDiscover == InitDiscover /\ [][discover]_vars

\* one byte array through the value codec and back
SpecEscape == InitEscape /\ [][escapeRoundTrip]_vars

\* one typed value stored by setv and read by getv
SpecTyped == InitTyped /\ [][setvGetv]_vars

\* one raw request built by either path
SpecRaw == InitRaw /\ [][socketParse \/ embeddedDispatch]_vars

\* the commands of one connection, served one after the other
SpecCmd == InitCmd /\ [][cmdDispatch \/ cmdReply \/ cmdNext]_vars

\* one parse of an inbound buffer
SpecFrame == InitFrame /\ [][frameParsed]_vars

\* setk and getk commands run one after the other on one store
SpecKey == InitKey /\ [][runSetKey \/ runLocateKey]_vars

\* one getv of a key
SpecGetv == InitGetv /\ [][getv]_vars

\* one engine, the goroutines that call its API and its clients
InitOfLife == InitFSM /\ IdleSet /\ IdleDisp /\ InitSrv /\ InitLife /\ IdleFn

SpecLife == InitOfLife /\ [][NextLife]_vars

\* Scheduling of the engine's goroutines: eng.onTerminate and the run loops of
\* the connections it asked to close keep running; a goroutine blocked in
\* WaitForTermination takes the signal when it is offered.  The callers of the
\* API are free to make no further call.
FairSpecLife ==
    /\ SpecLife
    /\ \A u \in Users : WF_vars(stopLaunch(u))
    /\ \A t \in Users :
          /\ WF_vars(lifeClose(t)) /\ WF_vars(lifeRequestClose(t))
          /\ WF_vars(lifeAllClosed(t)) /\ WF_vars(lifeStopSaver(t))
          /\ \A u \in Users : WF_vars(lifeCanExit(t, u))
    /\ \A i \in 1..(MaxAccepted + 1) :
          WF_vars(i \in DOMAIN registry /\ registry[i].closing /\ lifeTerminate(i))

\* one call of the value codec
SpecCodec == InitCodec /\ [][codecEscape \/ codecUnescape]_vars

\* runs of increments of the dirty counter and saves
SpecDirty == InitDirty /\ [][dirtyAddRun \/ dirtySave]_vars

\* Scheduling of goroutines: a goroutine inside unblock or isBlocked keeps
\* running (its steps never wait on the FSM word), and the capturing command's
\* releaseCapture retries its CAS after a bounded sleep, so it takes the CAS
\* whenever the word comes back to the awaited value again and again.
FairSpecFSM ==
    /\ SpecFSM
    /\ \A t \in Callers : WF_vars(unblock(t))
    /\ \A t \in Callers : WF_vars(isBlocked(t))
    /\ SF_vars(releaseCapture)

\* Scheduling of the server's goroutines: the Go scheduler keeps every runnable
\* goroutine running, so each step of the accept goroutine, the run loops, the
\* workers, the terminator and the saver is taken when it stays possible; a
\* select takes a case that is ready again and again; the program calls
\* WaitForTermination after StopServer.  Clients are free to do nothing: no
\* fairness on what they send or close, nor on the saver's timer.
FairSpec ==
    /\ Spec
    /\ WF_vars(WaitForTermination)
    /\ WF_vars(acceptConn) /\ WF_vars(acceptClosed) /\ WF_vars(acceptAppend)
    /\ WF_vars(newClientCxn)
    /\ \A c \in Conns :
          /\ WF_vars(runInitialize(c)) /\ WF_vars(runTerminate(c))
          /\ WF_vars(runWaitClosing(c)) /\ WF_vars(runWaitForCommand(c))
          /\ WF_vars(onDispatchCommand(c)) /\ WF_vars(waitSetWaiting(c))
          /\ WF_vars(waitRead(c)) /\ WF_vars(waitReadError(c))
          /\ WF_vars(waitFailed(c)) /\ WF_vars(waitParse(c))
          /\ WF_vars(RequestClose(c))
    /\ \A c \in Conns, k \in Reqs :
          /\ WF_vars(workerHandlerError(c, k) \/ workerSetKeyValue(c, k))
          /\ WF_vars(workerDirtyAdd(c, k))
          /\ WF_vars(workerWriteSize(c, k) \/ workerWriteFails(c, k))
          /\ WF_vars(workerWriteResponse(c, k) \/ workerWriteFails(c, k))
    /\ WF_vars(termCloseServer) /\ WF_vars(termCloseCxns)
    /\ WF_vars(processAllClients) /\ WF_vars(requestAllCxnClose)
    /\ WF_vars(waitForAllCxnClose) /\ WF_vars(pollAgain)
    /\ WF_vars(termNoSaver) /\ SF_vars(saverExit) /\ WF_vars(canExit)
    /\ WF_vars(saverFinalSave) /\ WF_vars(saverSaveStore)
    /\ WF_vars(saverSaveReturn) /\ WF_vars(saverTickDone)
    /\ WF_vars(saverTerminated)

(***************************************************************************)
(* C1: one-unblock guarantee.  In any capture (from capture() returning    *)
(* until the matching releaseCapture() completes) at most one item is sent *)
(* on unblockCh, however many unblock calls run during it.                 *)
(***************************************************************************)
C1_OneUnblockPerCapture == sent <= 1

\* an item was sent in this capture and a second unblock call of the same
\* capture found unblockPending already set
C1_Witness == sent = 1 /\ declined >= 1

(***************************************************************************)
(* C2: unblock never deadlocks.  Under fair scheduling every unblock and   *)
(* isBlocked call that was started eventually returns.                     *)
(***************************************************************************)
C2_UnblockReturns == \A t \in Callers : (tpc[t] # "idle") ~> (tpc[t] = "idle")

(***************************************************************************)
(* C8: dirty-save idempotence.  A save() call before which no handler      *)
(* incremented the dirty counter since the previous save() call does no    *)
(* file I/O and returns nil; so that call and the one before it together   *)
(* write each store file at most once.                                     *)
(***************************************************************************)
TimesIn(seq, x) == Cardinality({i \in DOMAIN seq : seq[i] = x})

C8_CleanSaveIsNoOp ==
    svClean =>
        /\ svWrites = <<>>
        /\ svpc = "idle"
        /\ svErr = "nil"
        /\ \A n \in DbNames : TimesIn(svPrev \o svWrites, n) <= 1

\* a save() that wrote a store file was followed, with no write in between, by
\* a second save() call
C8_Witness == svClean /\ Len(svPrev) > 0 /\ svpc = "idle" /\ dirty = 0

(***************************************************************************)
(* C10: a store named "main" always exists in the store map.               *)
(***************************************************************************)
C10_MainExists == "main" \in dbs

(***************************************************************************)
(* C7: request-number monotonicity.  As claimed: the request numbers of    *)
(* the request records are strictly increasing in the order the sink       *)
(* receives the records.                                                   *)
(***************************************************************************)
RequestRecords == SelectSeq(sinkLog, LAMBDA r : r.kind = "request")

StrictlyIncreasing(seq) ==
    \A i, j \in DOMAIN seq : i < j => seq[i] < seq[j]

C7_EmittedIncreasing ==
    \A i, j \in DOMAIN RequestRecords :
        i < j => RequestRecords[i].num < RequestRecords[j].num

(***************************************************************************)
(* C7, amended: request numbers are strictly increasing in the order the   *)
(* dispatches take them under the counter's lock, so no two request        *)
(* records carry the same number; the records of concurrent dispatches     *)
(* may reach the sink out of numeric order.                                *)
(***************************************************************************)
C7_AllocatedIncreasing ==
    /\ StrictlyIncreasing(allocLog)
    /\ \A i, j \in DOMAIN RequestRecords :
          i # j => RequestRecords[i].num # RequestRecords[j].num

\* two concurrent dispatches whose request records reached the sink in the
\* reverse of the order in which they took their numbers
C7_Witness ==
    /\ Len(allocLog) >= 2
    /\ \E i, j \in DOMAIN RequestRecords :
          i < j /\ RequestRecords[i].num > RequestRecords[j].num


(***************************************************************************)
(* C3: command serialization per client.  On one connection at most one    *)
(* dispatch worker runs at any time; when the worker of request k exists,  *)
(* the reply of every earlier request of the connection has been written   *)
(* in full; replies are written in arrival order.                          *)
(***************************************************************************)
C3_CommandSerialization ==
    \A c \in Conns :
       /\ Cardinality({k \in Reqs : Working(c, k)}) <= 1
       /\ \A k \in Reqs : wpc[c][k] # "none" =>
             \A j \in 1..(k - 1) : \E i \in 1..Len(written[c]) : written[c][i] = j
       /\ \A i \in 1..Len(written[c]) : written[c][i] = i

\* the worker of a connection's second request is in its handler, the reply
\* to the first one written
C3_Witness ==
    \E c \in Conns : InHandler(c, 2) /\ written[c] = <<1>>

(***************************************************************************)
(* C4: graceful shutdown invariant.  In the step in which                  *)
(* WaitForTermination returns, the listener is closed, the client registry *)
(* is empty and, with a base path, the saver has done its final save and   *)
(* has exited.                                                             *)
(***************************************************************************)
C4_GracefulShutdown ==
    [][(mainpc = "waiting" /\ mainpc' = "returned") =>
          /\ server' = "closed"
          /\ clients' = {}
          /\ basePath # "" => saverpc' = "exited"]_vars

(***************************************************************************)
(* C5: shutdown terminates with clients still connected.  Under fair       *)
(* scheduling, once StopServer was called on the started server, the       *)
(* WaitForTermination that follows it eventually returns; the case at     *)
(* stake is that of clients that never close their sockets, so nothing is  *)
(* asked of a behaviour in which a client does close.                      *)
(***************************************************************************)
C5_ShutdownTerminates ==
    (mainpc = "stopped") ~>
        (mainpc = "returned" \/ \E c \in Conns : peerClosed[c])

(***************************************************************************)
(* C6: shutdown drains in-flight work before the checkpoint.  Once the     *)
(* saver's final save has started, no worker of any connection is inside a *)
(* command handler.                                                        *)
(***************************************************************************)
C6_DrainedBeforeFinalSave ==
    saverpc \in {"final", "exited"} =>
        \A c \in Conns, k \in Reqs : ~InHandler(c, k)

(***************************************************************************)
(* C9: no mutation is left unsaved.  With a base path (and Save never      *)
(* failing), once the saver has exited, so that no save() will start any   *)
(* more, and no handler is running, the file of "main" holds every         *)
(* mutation applied to the store.                                          *)
(***************************************************************************)
C9_NoMutationUnsaved ==
    (/\ basePath # ""
     /\ saverpc = "exited"
     /\ \A c \in Conns, k \in Reqs : ~InHandler(c, k)
     /\ store["main"] > 0)
        => disk["main"] = store["main"]

(***************************************************************************)
(* C11: store-set startup discovery.  A regular file whose name has the    *)
(* base file name as prefix and ".db" as suffix yields the store named by  *)
(* the middle segment with its leading dots removed (none when that is     *)
(* empty); any other file yields no store.                                 *)
(***************************************************************************)
MiddleSegment(fileName) ==
    SubSeq(fileName, Len(FileBase) + 1, Len(fileName) - Len(DbSuffix))

C11_DiscoveryByMiddle ==
    fnDone =>
        fnOut = IF /\ HasPrefix(fnIn, FileBase)
                   /\ HasSuffix(fnIn, DbSuffix)
                   /\ TrimLeft(MiddleSegment(fnIn), {"."}) # <<>>
                   THEN {TrimLeft(MiddleSegment(fnIn), {"."})}
                   ELSE {}

(***************************************************************************)
(* C12: escape round-trip.  For every byte array B,                         *)
(* valueUnescape(valueEscape(B)) = B; the escaped text holds only bytes     *)
(* 0x20..0x7F, and each backslash in it starts a \HH sequence of two        *)
(* uppercase hex digits.                                                   *)
(***************************************************************************)
UpperHex == (48..57) \cup (65..70)

C12_EscapeRoundTrip ==
    fnDone =>
        /\ fnOut.back = fnIn
        /\ \A i \in 1..Len(fnOut.text) :
              /\ fnOut.text[i] \in 32..127
              /\ fnOut.text[i] = 92 =>
                    /\ i + 2 <= Len(fnOut.text)
                    /\ fnOut.text[i + 1] \in UpperHex
                    /\ fnOut.text[i + 2] \in UpperHex

\* a byte array of full length whose last byte is escaped went through the codec
C12_Witness ==
    /\ fnDone
    /\ Len(fnIn) = MaxBytes
    /\ needsEscape(fnIn[Len(fnIn)])
    /\ Len(fnOut.text) > Len(fnIn)

(***************************************************************************)
(* C13: typed value round-trip.  For every fixed-width integer tag T and   *)
(* every byte string V of T's width, setv --value-type T of V followed by  *)
(* getv answers the value-escaped bytes V and the type tag T.              *)
(***************************************************************************)
C13_TypedRoundTrip ==
    fnDone =>
        /\ fnOut.value = valueEscape(fnIn.value)
        /\ fnOut.type = fnIn.valueType

(***************************************************************************)
(* C14: raw-request invariant.  Every rawRequest handed to the dispatcher, *)
(* by the socket parser or by the embedded Dispatch, has as many exact     *)
(* entries as args, and exact[i] is the unescaped bytes of args[i].        *)
(***************************************************************************)
C14_ExactMatchesArgs ==
    fnDone =>
        /\ Len(fnOut.exact) = Len(fnOut.args)
        /\ \A i \in 1..Len(fnOut.args) : fnOut.exact[i] = valueUnescape(fnOut.args[i])

\* the same invariant for the requests of the socket parser alone
C14_SocketExactMatchesArgs ==
    (fnDone /\ fnIn.path = "socket") =>
        /\ Len(fnOut.exact) = Len(fnOut.args)
        /\ \A i \in 1..Len(fnOut.args) : fnOut.exact[i] = valueUnescape(fnOut.args[i])

(***************************************************************************)
(* C15: parse and handler errors are replies, not disconnects.  When the   *)
(* argv parser or a handler fails, the reply is the object {"error": msg}, *)
(* the store and the dirty counter are as they were before the command,    *)
(* the socket stays open and the worker queues WaitForCommand.             *)
(***************************************************************************)
C15_ErrorsAreReplies ==
    (fnOut.pc \in {"write", "wait", "end"} /\ fnOut.herr # "") =>
        /\ fnOut.output = [keys |-> {"error"}, error |-> fnOut.herr]
        /\ fnOut.store = fnOut.before.store
        /\ fnOut.dirty = fnOut.before.dirty
        /\ fnOut.sock = "open"
        /\ fnOut.pc # "end"
        /\ fnOut.pc = "wait" =>
              /\ fnOut.queued = "csWaitForCommand"
              /\ fnOut.replies[fnOut.n] = fnOut.output

\* the first command failed with a wrong-length value, and the next one was served
C15_Witness ==
    /\ fnOut.n = 2
    /\ fnOut.pc = "wait"
    /\ fnOut.herr = ""
    /\ fnIn[1].name = "setv" /\ fnIn[1].valueType = "int16" /\ Len(fnIn[1].value) = 1
    /\ fnOut.replies[1] = [keys |-> {"error"}, error |-> "invalid int16 value"]
    /\ Len(fnOut.store) = 1
    /\ fnOut.dirty = 1

(***************************************************************************)
(* C16: worker failure leads to Terminate.  When a worker's write of the   *)
(* length prefix or of the reply body fails, the socket is closed and a    *)
(* Terminate event is queued for the connection.                           *)
(***************************************************************************)
C16_WriteFailureQueuesTerminate ==
    [][\A c \in Conns, k \in Reqs :
          (/\ wpc[c][k] \in {"writelen", "writebody"}
           /\ wpc'[c][k] = "end"
           /\ \A i \in 1..Len(written'[c]) : written'[c][i] # k)
          => /\ sock'[c] = "closed"
             /\ \E i \in 1..Len(csceCh'[c]) : csceCh'[c][i].newState = "csTerminate"]_vars

\* the length field of the buffered frame is 2^31 or more
lengthTooLarge(inbound) == Len(inbound) >= 4 /\ inbound[1] >= 128

(***************************************************************************)
(* C17: frame errors terminate the connection.  A frame whose length field *)
(* is too large makes the connection transition to Terminate instead of    *)
(* staying in WaitForCommand accumulating bytes.                           *)
(***************************************************************************)
C17_FrameErrorTerminates ==
    (fnDone /\ lengthTooLarge(fnIn)) => fnOut.queued = "csTerminate"

(***************************************************************************)
(* C18: every complete frame is dispatched.  Under fair scheduling, once   *)
(* the k-th complete frame of a connection has been read from the socket,  *)
(* its DispatchCommand event is eventually emitted, unless the connection  *)
(* is closed or closing, the client closed its end or the server is being *)
(* stopped; the client does not have to send anything more.                *)
(***************************************************************************)
C18_EveryFrameDispatched ==
    \A c \in Conns, k \in Reqs :
        (readN[c] >= k) ~>
            \/ parsedN[c] >= k
            \/ closing[c] \/ sock[c] = "closed" \/ peerClosed[c]
            \/ mainpc # "serving"

\* the places in the sink's log of the records of one kind with one request number
RecordsOf(kind, n) ==
    {i \in 1..Len(sinkLog) : sinkLog[i].kind = kind /\ sinkLog[i].num = n}

\* the dispatch of goroutine d has returned
Returned(d) == dpc[d] = "idle" /\ dctx[d].name # ""

MadeBefore(j) ==
    \E i \in 1..(j - 1) :
        fnIn[i].name = "setk" /\ fnIn[j].key \in pathNodes(fnIn[i].key)

(***************************************************************************)
(* C21: setk/getk existence.  A setk of a path that is absent replies with *)
(* its address and exists=false and adds one to the dirty counter; a setk  *)
(* of a path that exists replies exists=true with the address the path was *)
(* given and leaves the dirty counter as it is; a getk replies with that   *)
(* same address, and with no address field for a path that was never made. *)
(***************************************************************************)
C21_SetkGetk ==
    \A j \in 1..fnOut.n :
        LET r == fnOut.replies[j]
        IN  /\ fnIn[j].name = "setk" =>
                  /\ r.fields = {"address", "exists"}
                  /\ r.exists = MadeBefore(j)
                  /\ fnOut.dirties[j + 1] =
                         (IF MadeBefore(j) THEN fnOut.dirties[j] ELSE fnOut.dirties[j] + 1)
            /\ fnIn[j].name = "getk" =>
                  r.fields = (IF MadeBefore(j) THEN {"address"} ELSE {})
            /\ \A i \in 1..(j - 1) :
                  (fnIn[i].name = "setk" /\ fnIn[i].key = fnIn[j].key) =>
                      /\ "address" \in r.fields
                      /\ r.address = fnOut.replies[i].address

\* setk of a new two-segment path on the empty store (address 3, exists=false), the
\* same setk again (exists=true, dirty unchanged), then getk with the same address
C21_Witness ==
    /\ fnOut.n = 3
    /\ fnIn[1] = [name |-> "setk", key |-> <<"a", "b">>]
    /\ fnIn[2] = fnIn[1]
    /\ fnIn[3] = [name |-> "getk", key |-> <<"a", "b">>]
    /\ fnOut.replies[1].address = 3 /\ ~fnOut.replies[1].exists
    /\ fnOut.replies[2].address = 3 /\ fnOut.replies[2].exists
    /\ fnOut.replies[3].address = 3
    /\ fnOut.dirty = 1

(***************************************************************************)
(* C22: in-memory mode.  With an empty base path no saver task exists, no  *)
(* save() runs, no store file is written (at start, on ticks or at         *)
(* shutdown), and the terminator never waits for a saver to acknowledge.   *)
(***************************************************************************)
C22_InMemoryMode ==
    basePath = "" =>
        /\ saverpc = "off"
        /\ svpc = "idle"
        /\ svWrites = <<>>
        /\ \A n \in DbNames : disk[n] = NoFile
        /\ termpc # "await_saver"

\* an in-memory server that took a write, left it unsaved and shut down
C22_Witness ==
    /\ basePath = ""
    /\ mainpc = "returned"
    /\ termpc = "done"
    /\ store["main"] > 0
    /\ dirty > 0

(***************************************************************************)
(* C23: save failure semantics.  When ts.Save fails, save() returns the    *)
(* error at once and leaves the dirty counter as the swap cleared it: as   *)
(* long as no write adds to the counter it stays 0, and the next save()    *)
(* call returns without writing any file.                                  *)
(***************************************************************************)
C23_SaveFailure ==
    /\ []((svpc = "idle" /\ svErr = "error" /\ ~incSince) => dirty = 0)
    /\ [][/\ (svErr = "nil" /\ svErr' = "error") =>
                (svpc' = "idle" /\ dirty' = dirty /\ disk' = disk)
          /\ (svpc = "idle" /\ svErr = "error" /\ ~incSince /\ svErr' = "nil") =>
                (svpc' = "idle" /\ svWrites' = <<>> /\ disk' = disk /\ dirty' = 0)]_vars

\* a save() has failed on its first store and returned; nothing was written since,
\* and the counter is clear
C23_Witness ==
    /\ svpc = "idle"
    /\ svErr = "error"
    /\ ~incSince
    /\ dirty = 0
    /\ Len(svWrites) = 1
    /\ basePath # ""

(***************************************************************************)
(* C24: binary value reply shape.  getv of a key that holds a raw byte     *)
(* value replies key_exists=true, the value-escaped bytes in "value" and a *)
(* "type" field that is the empty string; getv of a key without a value    *)
(* replies key_exists and neither "value" nor "type".                      *)
(***************************************************************************)
C24_RawValueReply ==
    fnDone =>
        /\ fnIn.at = "value" =>
              /\ DOMAIN fnOut = {"key_exists", "value", "type"}
              /\ fnOut.key_exists
              /\ fnOut.value = valueEscape(fnIn.value)
              /\ fnOut.type = ""
        /\ fnIn.at = "novalue" =>
              /\ DOMAIN fnOut = {"key_exists"}
              /\ fnOut.key_exists

(***************************************************************************)
(* C25: no stale unblock.  Whenever the FSM word is CS_UNCAPTURED the      *)
(* unblock channel is empty and unblockPending is 0; an unblock that read  *)
(* CS_UNCAPTURED queues nothing; and the channel is empty each time        *)
(* capture() returns, so a notice sent during one capture is never         *)
(* received by the next.                                                   *)
(***************************************************************************)
C25_NoStaleUnblock ==
    /\ [](blocked = CS_UNCAPTURED => unblockCh = <<>> /\ unblockPending = 0)
    /\ [](\A t \in Callers : tpc[t] \in {"u_cas", "u_send"} => tlocked[t] = CS_CAPTURED)
    /\ [][capture => unblockCh' = <<>> /\ unblockPending' = 0]_vars

\* a capture in which a notice was sent has been released
C25_Witness ==
    /\ blocked = CS_UNCAPTURED
    /\ opc = "idle"
    /\ sent = 1
    /\ \A t \in Callers : tpc[t] = "idle"

(***************************************************************************)
(* C26: releaseCapture protocol.  releaseCapture moves CS_CAPTURED to      *)
(* CS_DRAINING, empties the channel, clears unblockPending and only then   *)
(* moves CS_DRAINING to CS_UNCAPTURED; between the move to CS_DRAINING and *)
(* the return to CS_UNCAPTURED no unblock sends on the channel or sets     *)
(* unblockPending.                                                         *)
(***************************************************************************)
C26_ReleaseProtocol ==
    /\ [](opc \in {"drain", "clear", "unlock"} =>
             \A t \in Callers : tpc[t] \notin {"u_cas", "u_send"})
    /\ [](opc = "clear" => unblockCh = <<>>)
    /\ [](opc = "unlock" => unblockCh = <<>> /\ unblockPending = 0)
    /\ [][releaseLock => blocked = CS_CAPTURED /\ blocked' = CS_DRAINING]_vars
    /\ [][releaseUnlock => (blocked = CS_DRAINING /\ blocked' = CS_UNCAPTURED
                             /\ unblockCh = <<>> /\ unblockPending = 0)]_vars
    /\ [][(opc \in {"drain", "clear", "unlock"}) =>
             (Len(unblockCh') <= Len(unblockCh)
                /\ unblockPending' \in {unblockPending, 0})]_vars

\* an unblock call reads CS_DRAINING while releaseCapture has drained a notice
C26_Witness ==
    /\ opc = "unlock"
    /\ sent = 1
    /\ \E t \in Callers : tpc[t] = "u_restore" /\ tlocked[t] = CS_DRAINING

(***************************************************************************)
(* C27: the CS_CHECKING latch is released.  Whenever no unblock or         *)
(* isBlocked call is in progress, the FSM word is CS_UNCAPTURED,           *)
(* CS_CAPTURED or CS_DRAINING, never CS_CHECKING, and it is the value      *)
(* capture/releaseCapture set last.                                        *)
(***************************************************************************)
C27_LatchReleased ==
    (\A t \in Callers : tpc[t] = "idle") =>
        /\ blocked # CS_CHECKING
        /\ blocked = CASE opc = "idle" -> CS_UNCAPTURED
                       [] opc \in {"captured", "release"} -> CS_CAPTURED
                       [] OTHER -> CS_DRAINING

\* every call allowed has been made, by both goroutines, and has returned,
\* one of them having found the client captured
C27_Witness ==
    /\ \A t \in Callers : tpc[t] = "idle"
    /\ calls = MaxCalls
    /\ tlocked[1] = CS_CAPTURED
    /\ tresult[2]
    /\ opc = "drain"

(***************************************************************************)
(* C28: capture/release progress.  Under fair scheduling a releaseCapture  *)
(* call eventually completes and a later capture succeeds, while other     *)
(* goroutines call unblock or isBlocked.                                   *)
(***************************************************************************)
C28_ReleaseCompletes ==
    opc = "release" ~> opc = "idle"

(***************************************************************************)
(* C29: connection FSM transition relation.  cc.socketState moves only     *)
(* csNone to csInitialize, csInitialize to csWaitForCommand,               *)
(* csWaitForCommand to csWaitForCommand or csDispatchCommand,              *)
(* csDispatchCommand to csWaitForCommand, and any state to csTerminate;    *)
(* after csTerminate the run loop has returned, receives no event and the  *)
(* state never changes; csDispatchCommand is entered only from             *)
(* csWaitForCommand.                                                       *)
(***************************************************************************)
C29_CxnTransitions ==
    /\ [](\A c \in Conns : socketState[c] = "csTerminate" => rpc[c] = "done")
    /\ [][\A c \in Conns :
             /\ socketState'[c] # socketState[c] =>
                   \/ socketState'[c] = "csTerminate"
                   \/ <<socketState[c], socketState'[c]>> \in
                         { <<"csNone", "csInitialize">>,
                           <<"csInitialize", "csWaitForCommand">>,
                           <<"csWaitForCommand", "csDispatchCommand">>,
                           <<"csDispatchCommand", "csWaitForCommand">> }
             /\ runInitialize(c) => socketState[c] = "csNone"
             /\ (runWaitForCommand(c) \/ runWaitClosing(c)) =>
                   socketState[c] \in {"csInitialize", "csWaitForCommand",
                                       "csDispatchCommand"}
             /\ onDispatchCommand(c) => socketState[c] = "csWaitForCommand"
             /\ socketState[c] = "csTerminate" =>
                   (socketState'[c] = "csTerminate"
                      /\ rpc'[c] = "done"
                      /\ Len(csceCh'[c]) >= Len(csceCh[c]))]_vars

\* a connection that served a command is terminated with an event left in its queue
C29_Witness ==
    \E c \in Conns :
        /\ socketState[c] = "csTerminate"
        /\ written[c] # <<>>
        /\ csceCh[c] # <<>>

(***************************************************************************)
(* C30: disconnect cleanup.  When a socket read returns EOF or an error,   *)
(* the connection eventually processes csTerminate, which closes the       *)
(* socket and removes exactly that client from the registry; a client is   *)
(* in the registry from newClientCxn until its csTerminate completes and   *)
(* never afterwards.                                                       *)
(***************************************************************************)
C30_DisconnectCleanup ==
    /\ \A c \in Conns :
          rpc[c] = "readerr" ~>
             (socketState[c] = "csTerminate" /\ sock[c] = "closed" /\ c \notin clients)
    /\ [](\A c \in Conns : /\ rpc[c] \notin {"off", "done"} => c \in clients
                           /\ rpc[c] \in {"off", "done"} => c \notin clients)
    /\ [][\A c \in Conns : rpc[c] = "done" => rpc'[c] = "done"]_vars
    /\ [][\A c \in Conns : runTerminate(c) =>
             (clients' = clients \ {c} /\ c \in clients /\ sock'[c] = "closed")]_vars

\* the client closed its end, the read returned io.EOF and the connection is
\* cleaned up
C30_Witness ==
    \E c \in Conns :
        /\ peerClosed[c]
        /\ ~closing[c]
        /\ socketState[c] = "csTerminate"
        /\ c \notin clients

(***************************************************************************)
(* C31: one-shot termination.  However many StopServer calls are made on a *)
(* started engine, one after another or at the same time, eng.onTerminate  *)
(* is launched exactly once: never twice, and once as soon as a StopServer *)
(* call has returned.                                                      *)
(***************************************************************************)
C31_OneShotTermination ==
    /\ Cardinality({t \in Users : otpc[t] # "off"}) <= 1
    /\ (eng.terminating /\ \A u \in Users : upc[u] # "launch") =>
          Cardinality({t \in Users : otpc[t] # "off"}) = 1

\* two StopServer calls are under way at the same time
C31_Witness ==
    /\ upc[1] = "launch"
    /\ upc[2] = "nolaunch"

(***************************************************************************)
(* C32: request-number allocation.  The number a dispatch takes under      *)
(* cd.reqMu is greater than cd.requestNumber and than every number taken   *)
(* before it, whatever the clock value it read (repeated or earlier than   *)
(* the last), and becomes cd.requestNumber; no two dispatches that hold a  *)
(* number hold the same one.                                               *)
(***************************************************************************)
C32_RequestNumbers ==
    /\ [][\A d \in Dispatchers :
             allocNumber(d) =>
                (dnum'[d] > requestNumber
                   /\ requestNumber' = dnum'[d]
                   /\ \A i \in DOMAIN allocLog : allocLog[i] < dnum'[d])]_vars
    /\ [](\A d1, d2 \in Dispatchers :
             (d1 # d2 /\ dpc[d1] \notin {"idle", "clock", "lock"}
                      /\ dpc[d2] \notin {"idle", "clock", "lock"}) => dnum[d1] # dnum[d2])

\* two dispatches hold numbers and the later one read a clock value that was not
\* above the number before it
C32_Witness ==
    /\ Len(allocLog) >= 2
    /\ allocLog[Len(allocLog)] > MaxClock
    /\ \A d \in Dispatchers : dpc[d] \notin {"idle", "clock", "lock"}

(***************************************************************************)
(* C33: client identity.  Every new client state gets the id clientId + 1, *)
(* greater than every id assigned before, so an id is not used again after *)
(* its client was unregistered; the registry holds each client state under *)
(* the id the state carries.                                               *)
(***************************************************************************)
C33_ClientIdentity ==
    /\ [](\A i \in DOMAIN registry : registry[i].id = i /\ i \in 1..clientId)
    /\ [][(clientId' # clientId \/ ~(DOMAIN registry' \subseteq DOMAIN registry)) =>
             (clientId' = clientId + 1
                /\ DOMAIN registry' = DOMAIN registry \cup {clientId + 1}
                /\ registry'[clientId + 1].id = clientId + 1
                /\ \A i \in DOMAIN registry : registry'[i] = registry[i])]_vars

\* three clients were made, the embedded one among them, and the first two are
\* unregistered
C33_Witness ==
    /\ clientId = 3
    /\ DOMAIN registry = {3}

(***************************************************************************)
(* C34: registry callbacks never block.  The event channel of a connection *)
(* (capacity 3) is never full, so no queueStateChange waits; RequestClose  *)
(* queues csTerminate only when it sets cc.closing, which stays set, hence *)
(* at most once per connection; and processAllClients, which holds the     *)
(* registry lock around RequestClose, always returns and releases it.      *)
(***************************************************************************)
C34_CallbacksNeverBlock ==
    /\ [](\A c \in Conns : Len(csceCh[c]) < CsceChCap)
    /\ [][\A c \in Conns :
             /\ closing[c] => closing'[c]
             /\ RequestClose(c) =>
                   IF closing[c]
                      THEN csceCh'[c] = csceCh[c]
                      ELSE closing'[c]
                             /\ csceCh'[c] = Append(csceCh[c], Event("csTerminate", 0))]_vars
    /\ (termpc = "requesting") ~> (termpc = "poll")

\* RequestClose has queued csTerminate behind another event while the registry
\* lock is held
C34_Witness ==
    \E c \in Conns :
        /\ termpc = "requesting"
        /\ closing[c]
        /\ Len(csceCh[c]) = 2
        /\ csceCh[c][2].newState = "csTerminate"

\* the frame at the start of the buffer is complete: the four bytes of the
\* length and as many payload bytes as they say (a buffer here is shorter than
\* 65536 bytes)
frameComplete(inbound) ==
    /\ Len(inbound) >= 4
    /\ inbound[1] = 0 /\ inbound[2] = 0
    /\ Len(inbound) - 4 >= inbound[3] * 256 + inbound[4]

RECURSIVE joinLines(_)
\* the args joined by "\n"
joinLines(args) ==
    IF Len(args) = 1 THEN args[1] ELSE args[1] \o <<10>> \o joinLines(Tail(args))

(***************************************************************************)
(* C35: frame parsing.  While fewer than 4+N bytes are buffered (N the     *)
(* big-endian length at the start), parseCommand returns length 0 and      *)
(* cc.inbound is left as it is; otherwise the length is 4+N, the args      *)
(* joined by "\n" are the N payload bytes, and cc.inbound keeps exactly    *)
(* the bytes after the frame, in order: one frame is consumed per parse.   *)
(***************************************************************************)
C35_FrameParsing ==
    fnDone =>
        IF frameComplete(fnIn)
           THEN /\ fnOut.length = 4 + fnIn[3] * 256 + fnIn[4]
                /\ joinLines(fnOut.req.args) = SubSeq(fnIn, 5, fnOut.length)
                /\ fnOut.inbound = SubSeq(fnIn, fnOut.length + 1, Len(fnIn))
                /\ fnOut.queued = "csDispatchCommand"
           ELSE /\ fnOut.length = 0
                /\ fnOut.inbound = fnIn
                /\ fnOut.queued = "csWaitForCommand"

\* a frame of two args was cut from a buffer that holds the start of the next
C35_Witness ==
    /\ fnDone
    /\ fnOut.length = 6
    /\ Len(fnOut.req.args) = 2
    /\ Len(fnOut.inbound) = 2

(***************************************************************************)
(* C36: shutdown after embedded dispatch.  If Dispatch was called on the   *)
(* started engine before StopServer, the termination still gets past its   *)
(* wait for an empty client registry, with the embedded client's state     *)
(* removed from it, so that WaitForTermination can return.                 *)
(***************************************************************************)
C36_ShutdownAfterDispatch ==
    (eng.directCs # 0 /\ \E u \in Users : upc[u] = "launch") ~>
        (eng.directCs \notin DOMAIN registry /\ \E t \in Users : otpc[t] \in {"exit", "done"})

(***************************************************************************)
(* C37: escape codec totality.  valueEscape returns the empty text, and    *)
(* does not fail, for an empty and for a nil byte array; valueUnescape     *)
(* fails on no text: a text without backslash comes back as it is, a       *)
(* backslash with two hex digits after it gives one byte, and a backslash  *)
(* before anything else stays a backslash.                                 *)
(***************************************************************************)
C37_CodecTotal ==
    fnDone =>
        /\ ~fnOut.panic
        /\ (fnIn.fn = "valueEscape" /\ fnIn.v = <<>>) => fnOut.out = <<>>
        /\ (fnIn.fn = "valueUnescape" /\ \A i \in DOMAIN fnIn.v : fnIn.v[i] # 92) =>
              fnOut.out = fnIn.v
        /\ (fnIn.fn = "valueUnescape" /\ Len(fnIn.v) >= 1 /\ fnIn.v[1] = 92) =>
              IF Len(fnIn.v) >= 3 /\ fnIn.v[2] \in {49, 52, 70, 102}
                                  /\ fnIn.v[3] \in {49, 52, 70, 102}
                 THEN fnOut.out[1] \in 0..255 /\ fnOut.out[1] # 92
                 ELSE fnOut.out[1] = 92 /\ Len(fnOut.out) >= 1

(***************************************************************************)
(* C38: lifecycle guards.  StartServer on a started engine returns an      *)
(* error and changes nothing of the engine (listener, store set, saver);   *)
(* StopServer on an engine that is not started returns an error and        *)
(* launches no termination; and while the engine is not started, a failed  *)
(* StartServer included, no saver goroutine runs and no listener is open.  *)
(***************************************************************************)
C38_LifecycleGuards ==
    /\ [][\A u \in Users :
             startAgain(u) =>
                (ures'[u] = "already started" /\ eng' = eng /\ savers' = savers
                   /\ otpc' = otpc)]_vars
    /\ [][\A u \in Users :
             stopNotStarted(u) =>
                (ures'[u] = "not started" /\ eng' = eng /\ otpc' = otpc)]_vars
    /\ [](~eng.started => (~eng.terminating /\ \A t \in Users : otpc[t] = "off"))
    /\ [][eng.started => (eng'.tss = eng.tss /\ eng'.exitSaver = eng.exitSaver
                            /\ savers' <= savers)]_vars
    /\ [](~eng.started => (savers = 0 /\ eng.server = "nil"))

(***************************************************************************)
(* C39: WaitForTermination waits for the server to stop, for every caller. *)
(* It returns only after the termination sequence has finished; every call *)
(* made on a started engine returns once the termination has got to its    *)
(* end, two callers at the same time and a call after another returned     *)
(* included; and the termination goroutine finishes when nobody waits.     *)
(***************************************************************************)
C39_WaitForTermination ==
    /\ [](\A u \in Users : ures[u] = "returned" => \E t \in Users : otpc[t] = "done")
    /\ \A u \in Users :
          (upc[u] = "waiting" /\ eng.started /\ \E t \in Users : otpc[t] \in {"exit", "done"})
             ~> (upc[u] # "waiting")
    /\ (\E t \in Users : otpc[t] = "exit") ~> (\E t \in Users : otpc[t] = "done")

(***************************************************************************)
(* C40: dirty counter arithmetic.  Between saves the counter is the number *)
(* of increments since the last save modulo 2^32, and save() writes the    *)
(* stores whenever the counter it swaps out is nonzero, that is whenever   *)
(* there was an increment since the last save, for every number of         *)
(* increments, those that pass the 32-bit signed width included.           *)
(***************************************************************************)
C40_DirtyCounter ==
    /\ fnOut.dirty = <<fnOut.since[2], fnOut.since[3]>>
    /\ fnOut.saved = "skipped" => fnOut.before = <<0, 0>>
    /\ fnOut.saved = "skipped" => fnOut.counted = <<0, 0, 0>>
    /\ fnOut.saved = "written" => fnOut.counted # <<0, 0, 0>>

======================================================================
